---- MODULE Spec2Model ----
(***************************************************************************)
(* The ingestion pipeline of kucukaslan/clickhouse: the EventBatcher       *)
(* (services/batcher.go), the eventService facade (services/event.go),     *)
(* the Redis idempotency cache and the ClickHouse writer (config.go), and  *)
(* the HTTP handlers that map the facade's results (api/http.go).          *)
(***************************************************************************)
EXTENDS Integers, Sequences, FiniteSets, TLC

\* ------------------------------------------------------------------ bounds
MaxStored == 2
MaxWrite == 2
MaxEvents == 2     \* events posted over a run, single and bulk together
Capacity == 1      \* EVENT_BUFFER_CAPACITY of the run
BatchSize == 2     \* EVENT_BATCH_SIZE of the run
MaxRace == 3       \* events handed to Enqueue directly over a run

\* --------------------------------------------------------------- constants
Nil == "nil"
ErrBufferFull == "event buffer is full"
ErrNoEvents == "no events to insert"
ErrSerialize == "failed to serialize metadata"
ErrInsert == "failed to columnar insert events"
ErrRedis == "redis: connection error"
RedisKeyPrefix == "clickhouse_event:"

VARIABLES
    eventChan,      \* b.eventChan: the buffered channel, head first
    currentBatch,   \* b.currentBatch
    isRunning,      \* b.isRunning
    cancelled,      \* b.ctx is done (b.cancel() was called)
    wg,             \* b.wg counter
    starting,       \* a Start call is between line 64 and line 66
    shutdownPc,     \* the Shutdown caller: "idle", "waiting" (wg.Wait), "returned"
    wpc,            \* the worker: "none", "select", "flushBatch", "filter",
                    \*   "save", "drain", "done"; where the mutex is modelled also
                    \*   "recv", "tick", "snapshot" (the worker holds b.mu)
    ret,            \* where flushBatch returns to: "select", "drain", "exit"
    batch,          \* flushBatch's local copy of the batch
    unprocessed,    \* flushBatch's local unprocessedEvents
    drained,        \* flushRemaining's local counter
    cache,          \* Redis: key -> value, for the keys present
    cacheUp,        \* Redis answers; when FALSE every cache call returns an error
    marks,          \* the mark-processed goroutines not yet finished
    calls,          \* the batcher's SaveEvents calls so far, in order
    bulkCalls,      \* the bulk path's SaveEvents calls so far, in order
    nextTag,        \* the tag of the next posted event
    last,           \* the last HTTP request served, its response, and for a
                    \*   single event whether the worker was inside a flush
    accepted,       \* history: events for which Enqueue returned nil, in order
    dequeued,       \* history: number of receives from eventChan
    filteredOut,    \* history: events the batcher's filter dropped
    cacheEverDown,  \* history: Redis has been unavailable at some point
    lateEnq,        \* history: Enqueue accepted an event after cancel
    sdAfterStart,   \* history: the first effective Shutdown began after Start returned
    expirationMilliseconds, \* ClickHouseRedis.expirationMilliseconds, the configured TTL
    eventsTable,    \* the rows of the ClickHouse table events, in insert order
    mainPc,         \* main: "serving", "cleanup" (the server has shut down),
                    \*   "storeClosed", "cacheClosed" (until the process exits)
    mu,             \* b.mu: "free", or its holder, "worker" or "caller"
    cacheHung       \* Redis has stopped answering: a call without a deadline never returns

vars == <<eventChan, currentBatch, isRunning, cancelled, wg, starting, shutdownPc,
          wpc, ret, batch, unprocessed, drained, cache, cacheUp, marks, calls,
          bulkCalls, nextTag, last, accepted, dequeued, filteredOut, cacheEverDown, lateEnq,
          sdAfterStart, expirationMilliseconds, eventsTable, mainPc, mu, cacheHung>>

workerLocals == <<ret, batch, unprocessed, drained>>
lifecycleVars == <<isRunning, cancelled, wg, starting, shutdownPc, sdAfterStart>>
batcherVars == <<eventChan, currentBatch, wpc, workerLocals, lifecycleVars>>
cacheVars == <<cache, cacheUp, cacheEverDown, expirationMilliseconds>>
requestVars == <<nextTag, last, accepted, lateEnq>>
processVars == <<mainPc, mu, cacheHung>>

\* ------------------------------------------------------------------ events
\* The identity fields of the events clients post. tag is the position of the
\* event in posting order; it tells two posts apart as the payload of real
\* requests does. The payload fields that reach the store are the same for
\* all of them.
Users == {"user_1", "user_2"}

Identities ==
    { [event_name |-> "purchase", user_id |-> u,
       timestamp |-> 1700000000, channel |-> "web"] : u \in Users }

MkEvent(ident, tag) ==
    [event_name |-> ident.event_name, user_id |-> ident.user_id,
     timestamp |-> ident.timestamp, channel |-> ident.channel, tag |-> tag,
     campaign_id |-> "summer", tags |-> [nil |-> FALSE, items |-> << >>],
     metadata |-> [nil |-> FALSE, keys |-> {}, at |-> << >>]]

\* A fingerprint that leaves the channel out.
GetUniqueKeyNoChannel(e) ==
    e.event_name \o "|" \o e.user_id \o "|" \o ToString(e.timestamp)

GetUniqueKey(e) ==
    e.event_name \o "|" \o e.user_id \o "|" \o ToString(e.timestamp) \o "|" \o e.channel

RedisKey(e) == RedisKeyPrefix \o GetUniqueKey(e)

Range(s) == { s[i] : i \in 1..Len(s) }

\* --------------------------------------------------------------- the cache
\* GET on the bare fingerprint, without the key prefix.
IsEventProcessedBareKey(c, e, cerr) ==
    IF cerr THEN [processed |-> FALSE, err |-> ErrRedis]
    ELSE IF GetUniqueKey(e) \notin DOMAIN c THEN [processed |-> FALSE, err |-> Nil]
    ELSE [processed |-> (c[GetUniqueKey(e)] = "1"), err |-> Nil]

\* GET that takes any stored value for a mark.
IsEventProcessedAnyValue(c, e, cerr) ==
    IF cerr THEN [processed |-> FALSE, err |-> ErrRedis]
    ELSE [processed |-> RedisKey(e) \in DOMAIN c, err |-> Nil]

\* GET key: redis.Nil for a missing key.
IsEventProcessed(c, e, cerr) ==
    IF cerr THEN [processed |-> FALSE, err |-> ErrRedis]
    ELSE IF RedisKey(e) \notin DOMAIN c THEN [processed |-> FALSE, err |-> Nil]
    ELSE [processed |-> (c[RedisKey(e)] = "1"), err |-> Nil]

\* MGET whose map holds true for every stored value.
AreEventsProcessedAnyValue(c, events, cerr) ==
    IF cerr THEN [map |-> << >>, err |-> ErrRedis]
    ELSE [map |-> [k \in { GetUniqueKey(events[i]) : i \in 1..Len(events) }
                     |-> (RedisKeyPrefix \o k) \in DOMAIN c],
          err |-> Nil]

\* MGET keys...: the map holds false for a nil result, true for "1", and no
\* entry for any other value.
AreEventsProcessed(c, events, cerr) ==
    IF cerr THEN [map |-> << >>, err |-> ErrRedis]
    ELSE [map |-> [k \in { GetUniqueKey(events[i]) : i \in
                            { j \in 1..Len(events) :
                                RedisKey(events[j]) \notin DOMAIN c
                                \/ c[RedisKey(events[j])] = "1" } }
                     |-> (RedisKeyPrefix \o k) \in DOMAIN c],
          err |-> Nil]

\* getExpirationDuration: zero for a TTL that is not positive.
getExpirationDuration(ms) == IF ms <= 0 THEN 0 ELSE ms

\* SETEX key seconds value: Redis refuses an expire time that is not positive
\* and stores nothing.
SetEx(c, key, value, expiration) ==
    IF expiration <= 0
    THEN [c |-> c, err |-> "ERR invalid expire time in 'setex' command"]
    ELSE [c |-> [k \in DOMAIN c \cup {key} |-> IF k = key THEN value ELSE c[k]],
          err |-> Nil]

\* SetEventProcessed: the result of SetEx is dropped.
SetEventProcessed(c, request, ms) ==
    SetEx(c, RedisKey(request), "1", getExpirationDuration(ms)).c

\* The pipeline that stores a timestamp-like value instead of "1".
SetMultipleEventsProcessedOtherValue(c, events, ms) ==
    [k \in DOMAIN c \cup { RedisKey(events[i]) : i \in 1..Len(events) } |->
        IF k \in { RedisKey(events[i]) : i \in 1..Len(events) } THEN "true" ELSE c[k]]

\* The pipeline of SETEX key "1", one command per event of the list.
SetMultipleEventsProcessed(c, events, ms) ==
    LET pipe[i \in 0..Len(events)] ==
            IF i = 0 THEN c
            ELSE SetEx(pipe[i - 1], RedisKey(events[i]), "1", getExpirationDuration(ms)).c
    IN  pipe[Len(events)]

\* A filter that passes every event whatever the cache answered.
filterProcessedEventsPassAll(events, r) == events

\* A filter that drops the whole list when the cache call failed.
filterProcessedEventsFailClosed(events, r) ==
    IF r.err # Nil THEN << >>
    ELSE SelectSeq(events, LAMBDA e :
            GetUniqueKey(e) \notin DOMAIN r.map \/ ~r.map[GetUniqueKey(e)])

\* A filter that also keeps only the first event of each fingerprint.
filterProcessedEventsDistinct(events, r) ==
    IF r.err # Nil THEN events
    ELSE LET idx == { i \in 1..Len(events) :
                        /\ (GetUniqueKey(events[i]) \notin DOMAIN r.map
                                \/ ~r.map[GetUniqueKey(events[i])])
                        /\ \A j \in 1..(i - 1) :
                                GetUniqueKey(events[j]) # GetUniqueKey(events[i]) }
             Keep[i \in 0..Len(events)] ==
                IF i = 0 THEN << >>
                ELSE IF i \in idx THEN Append(Keep[i - 1], events[i]) ELSE Keep[i - 1]
         IN  Keep[Len(events)]

\* filterProcessedEvents of the batcher and of the service (the same code).
filterProcessedEvents(events, r) ==
    IF r.err # Nil THEN events
    ELSE SelectSeq(events, LAMBDA e :
            GetUniqueKey(e) \notin DOMAIN r.map \/ ~r.map[GetUniqueKey(e)])

\* --------------------------------------------------------------- the store
\* time.Now().UTC().Unix() at the moment requests are validated.
Now == 1700000000

\* time.Now() as SaveEvents reads it: the clock moves on with every row stored.
TimeNow == Now + Len(eventsTable)

\* The keys metadata maps use, in the order json.Marshal writes them (sorted).
MetadataKeys == <<"plan", "tier">>

\* json.Marshal of a metadata map: keys sorted, string values quoted; a value
\* JSON cannot represent is an error.
Marshal(m) ==
    LET ks == SelectSeq(MetadataKeys, LAMBDA k : k \in m.keys)
        enc[i \in 0..Len(ks)] ==
            IF i = 0 THEN ""
            ELSE enc[i - 1] \o (IF i = 1 THEN "" ELSE ",")
                 \o "\"" \o ks[i] \o "\":\"" \o m.at[ks[i]].text \o "\""
    IN  IF \E k \in m.keys : m.at[k].kind # "string"
        THEN [text |-> "", err |-> "json: unsupported value"]
        ELSE [text |-> "{" \o enc[Len(ks)] \o "}", err |-> Nil]

\* The metadata column of one request: "" for a nil or empty map.
metadataJSON(request) ==
    IF ~request.metadata.nil /\ request.metadata.keys # {}
    THEN Marshal(request.metadata)
    ELSE [text |-> "", err |-> Nil]

\* A columnar model that writes JSON null for a nil or empty map.
EventColumnarNullMetadata(requests, now) ==
    LET n == Len(requests)
    IN  [event_name |-> [i \in 1..n |-> requests[i].event_name],
         channel |-> [i \in 1..n |-> requests[i].channel],
         campaign_id |-> [i \in 1..n |-> requests[i].campaign_id],
         user_id |-> [i \in 1..n |-> requests[i].user_id],
         timestamp |-> [i \in 1..n |-> requests[i].timestamp],
         tags |-> [i \in 1..n |-> requests[i].tags],
         metadata |-> [i \in 1..n |->
                         IF ~requests[i].metadata.nil /\ requests[i].metadata.keys # {}
                         THEN metadataJSON(requests[i]).text ELSE "null"],
         ingested_at |-> [i \in 1..n |-> now]]

\* SaveEvents, lines 158-205: the columns built from the requests.
EventColumnar(requests, now) ==
    LET n == Len(requests)
    IN  [event_name |-> [i \in 1..n |-> requests[i].event_name],
         channel |-> [i \in 1..n |-> requests[i].channel],
         campaign_id |-> [i \in 1..n |-> requests[i].campaign_id],
         user_id |-> [i \in 1..n |-> requests[i].user_id],
         timestamp |-> [i \in 1..n |-> requests[i].timestamp],
         tags |-> [i \in 1..n |-> requests[i].tags],
         metadata |-> [i \in 1..n |-> metadataJSON(requests[i]).text],
         ingested_at |-> [i \in 1..n |-> now]]

\* SaveEvents: the insert statements it issues, none for an empty input or
\* when a metadata map cannot be serialized.
SaveEventsInsert(requests, now) ==
    IF Len(requests) = 0 THEN << >>
    ELSE IF \E i \in 1..Len(requests) : metadataJSON(requests[i]).err # Nil
         THEN << >>
    ELSE <<EventColumnar(requests, now)>>

\* SaveEvents: the error it returns.
SaveEvents(requests, storeOk) ==
    IF Len(requests) = 0 THEN ErrNoEvents
    ELSE IF \E i \in 1..Len(requests) : metadataJSON(requests[i]).err # Nil
         THEN ErrSerialize
    ELSE IF storeOk THEN Nil ELSE ErrInsert

\* The rows of a columnar model.
Rows(model) ==
    [i \in 1..Len(model.event_name) |->
        [event_name |-> model.event_name[i], channel |-> model.channel[i],
         campaign_id |-> model.campaign_id[i], user_id |-> model.user_id[i],
         timestamp |-> model.timestamp[i], tags |-> model.tags[i],
         metadata |-> model.metadata[i], ingested_at |-> model.ingested_at[i]]]

\* NewInsert().Model(columnarModel).Exec: the rows reach the table unless the
\* store fails.
Exec(table, inserts, storeOk) ==
    IF storeOk /\ inserts # << >> THEN table \o Rows(inserts[1]) ELSE table

SaveResult(err) ==
    IF err = Nil THEN "ok" ELSE IF err = ErrNoEvents THEN "empty" ELSE "failed"

\* ------------------------------------------------------------- the batcher
\* Enqueue as a ring buffer: a full channel drops its oldest event.
EnqueueDropOldest(chan, e) ==
    IF Len(chan) < Capacity
    THEN [chan |-> Append(chan, e), err |-> Nil]
    ELSE [chan |-> Append(Tail(chan), e), err |-> Nil]

\* Enqueue on a channel that has no bound.
EnqueueUnbounded(chan, e) == [chan |-> Append(chan, e), err |-> Nil]

\* An Enqueue that refuses events once the batcher's context is cancelled.
EnqueueUntilCancelled(chan, e) ==
    IF Len(chan) < Capacity /\ ~cancelled
    THEN [chan |-> Append(chan, e), err |-> Nil]
    ELSE [chan |-> chan, err |-> ErrBufferFull]

\* Enqueue: a non-blocking send on the buffered channel.
Enqueue(chan, e) ==
    IF Len(chan) < Capacity
    THEN [chan |-> Append(chan, e), err |-> Nil]
    ELSE [chan |-> chan, err |-> ErrBufferFull]

GetBufferSize == Len(eventChan)
GetBatchSize == Len(currentBatch)

\* ------------------------------------------------------------- the service
PostEvents(chan, c, e, cerr) ==
    LET p == IsEventProcessed(c, e, cerr) IN
    IF p.processed
    THEN [resp |-> [success |-> TRUE, message |-> "Event already processed"],
          err |-> Nil, chan |-> chan]
    ELSE LET q == Enqueue(chan, e) IN
         IF q.err # Nil
         THEN [resp |-> [success |-> FALSE,
                         message |-> "Event buffer is full, please try again later"],
               err |-> q.err, chan |-> q.chan]
         ELSE [resp |-> [success |-> TRUE, message |-> "Event posted successfully"],
               err |-> Nil, chan |-> q.chan]

\* A bulk service that on failure counts the filtered-out events as successes.
PostEventsBulkPartialCounts(c, events, cerr, storeOk) ==
    LET filteredEvents == filterProcessedEvents(events, AreEventsProcessed(c, events, cerr))
        err == SaveEvents(filteredEvents, storeOk)
    IN  IF err # Nil
        THEN [resp |-> [success |-> FALSE,
                        message |-> "Failed to save bulk events: " \o err,
                        total_count |-> Len(events),
                        success_count |-> Len(events) - Len(filteredEvents),
                        failure_count |-> Len(filteredEvents)],
              err |-> err, written |-> filteredEvents, mark |-> FALSE]
        ELSE [resp |-> [success |-> TRUE, message |-> "Bulk events posted successfully",
                        total_count |-> Len(events), success_count |-> Len(events),
                        failure_count |-> 0],
              err |-> Nil, written |-> filteredEvents, mark |-> TRUE]

PostEventsBulk(c, events, cerr, storeOk) ==
    LET filteredEvents == filterProcessedEvents(events, AreEventsProcessed(c, events, cerr))
        err == SaveEvents(filteredEvents, storeOk)
    IN  IF err # Nil
        THEN [resp |-> [success |-> FALSE,
                        message |-> "Failed to save bulk events: " \o err,
                        total_count |-> Len(events), success_count |-> 0,
                        failure_count |-> Len(events)],
              err |-> err, written |-> filteredEvents, mark |-> FALSE]
        ELSE [resp |-> [success |-> TRUE, message |-> "Bulk events posted successfully",
                        total_count |-> Len(events), success_count |-> Len(events),
                        failure_count |-> 0],
              err |-> Nil, written |-> filteredEvents, mark |-> TRUE]

\* ---------------------------------------------------------- the HTTP layer
\* A handler that maps every service error to 500.
PostEventHandlerAlways500(r) ==
    IF r.err # Nil
    THEN [status |-> 500,
          body |-> [success |-> FALSE, message |-> "Internal server error: " \o r.err]]
    ELSE [status |-> 200, body |-> r.resp]

PostEventHandler(r) ==
    IF r.err # Nil
    THEN IF r.err = ErrBufferFull
         THEN [status |-> 503,
               body |-> [success |-> FALSE,
                         message |-> "Service temporarily unavailable, please try again later"]]
         ELSE [status |-> 500,
               body |-> [success |-> FALSE,
                         message |-> "Internal server error: " \o r.err]]
    ELSE [status |-> 200, body |-> r.resp]

PostEventsBulkHandler(r) ==
    IF r.err # Nil
    THEN [status |-> 500,
          body |-> [success |-> FALSE, message |-> "Internal server error: " \o r.err,
                    total_count |-> r.resp.total_count,
                    success_count |-> r.resp.success_count,
                    failure_count |-> r.resp.failure_count]]
    ELSE [status |-> 200, body |-> r.resp]

\* -------------------------------------------------------------------- Init
\* Redis outlives the process: it starts empty, or holding the mark a previous
\* run left for one fingerprint.
InitialCaches ==
    { << >> } \cup
    { SetMultipleEventsProcessed(<< >>, <<MkEvent(i, 0)>>, 60 * 60 * 1000) :
        i \in { j \in Identities : j.user_id = "user_1" } }

Init ==
    /\ eventChan = << >>
    /\ currentBatch = << >>
    /\ isRunning = FALSE
    /\ cancelled = FALSE
    /\ wg = 0
    /\ starting = FALSE
    /\ shutdownPc = "idle"
    /\ wpc = "none"
    /\ ret = "select"
    /\ batch = << >>
    /\ unprocessed = << >>
    /\ drained = 0
    /\ cache \in InitialCaches
    /\ cacheUp = TRUE
    /\ marks = {}
    /\ calls = << >>
    /\ bulkCalls = << >>
    /\ nextTag = 1
    /\ last = [op |-> "none"]
    /\ accepted = << >>
    /\ dequeued = 0
    /\ filteredOut = {}
    /\ cacheEverDown = FALSE
    /\ lateEnq = FALSE
    /\ sdAfterStart = FALSE
    /\ expirationMilliseconds = 60 * 60 * 1000
    /\ eventsTable = << >>
    /\ mainPc = "serving"
    /\ mu = "free"
    /\ cacheHung = FALSE

\* ---------------------------------------------------------------- requests
\* POST /events with a valid event.
PostEvent(ident) ==
    /\ nextTag <= MaxEvents
    /\ LET e == MkEvent(ident, nextTag)
           r == PostEvents(eventChan, cache, e, ~cacheUp)
           ok == r.err = Nil /\ r.chan # eventChan
       IN  /\ eventChan' = r.chan
           /\ accepted' = IF ok THEN Append(accepted, e) ELSE accepted
           /\ lateEnq' = (lateEnq \/ (ok /\ cancelled))
           /\ last' = [op |-> "PostEvents", event |-> e,
                       flushing |-> wpc \in {"filter", "save"},
                       resp |-> r.resp, err |-> r.err, http |-> PostEventHandler(r)]
    /\ nextTag' = nextTag + 1
    /\ UNCHANGED <<currentBatch, wpc, workerLocals, lifecycleVars, cacheVars, marks,
                   calls, eventsTable, processVars, bulkCalls, dequeued, filteredOut>>

BulkInputs ==
    UNION { [1..n -> Identities] : n \in 1..MaxEvents }

\* POST /events/bulk served through the intake queue: the request waits for
\* room and its events are enqueued as well as written.
PostBulkThroughQueue(idents, storeOk) ==
    /\ nextTag + Len(idents) - 1 <= MaxEvents
    /\ Len(eventChan) + Len(idents) <= Capacity
    /\ LET events == [i \in 1..Len(idents) |-> MkEvent(idents[i], nextTag + i - 1)]
           r == PostEventsBulk(cache, events, ~cacheUp, storeOk)
       IN  /\ bulkCalls' = Append(bulkCalls, [events |-> r.written,
                                              result |-> SaveResult(r.err)])
           /\ eventsTable' = Exec(eventsTable, SaveEventsInsert(r.written, TimeNow), storeOk)
           /\ marks' = IF r.mark THEN marks \cup {[events |-> r.written, via |-> "bulk"]}
                       ELSE marks
           /\ eventChan' = eventChan \o events
           /\ accepted' = accepted \o events
           /\ last' = [op |-> "PostEventsBulk", events |-> events,
                       resp |-> r.resp, err |-> r.err,
                       http |-> PostEventsBulkHandler(r)]
    /\ nextTag' = nextTag + Len(idents)
    /\ UNCHANGED <<currentBatch, wpc, workerLocals, lifecycleVars, cacheVars, processVars, calls,
                   dequeued, filteredOut, lateEnq>>

\* POST /events/bulk with a valid, non-empty list.
PostBulk(idents, storeOk) ==
    /\ nextTag + Len(idents) - 1 <= MaxEvents
    /\ LET events == [i \in 1..Len(idents) |-> MkEvent(idents[i], nextTag + i - 1)]
           r == PostEventsBulk(cache, events, ~cacheUp, storeOk)
       IN  /\ bulkCalls' = Append(bulkCalls, [events |-> r.written,
                                              result |-> SaveResult(r.err)])
           /\ eventsTable' = Exec(eventsTable, SaveEventsInsert(r.written, TimeNow), storeOk)
           /\ marks' = IF r.mark THEN marks \cup {[events |-> r.written, via |-> "bulk"]}
                       ELSE marks
           /\ last' = [op |-> "PostEventsBulk", events |-> events,
                       resp |-> r.resp, err |-> r.err,
                       http |-> PostEventsBulkHandler(r)]
    /\ nextTag' = nextTag + Len(idents)
    /\ UNCHANGED <<batcherVars, cacheVars, processVars, calls, accepted, dequeued, filteredOut,
                   lateEnq>>

\* --------------------------------------------------------------- lifecycle
\* Start without the isRunning test: every call goes on to launch a worker.
StartCallUnguarded ==
    /\ isRunning' = TRUE
    /\ starting' = TRUE
    /\ UNCHANGED <<eventChan, currentBatch, cancelled, wg, shutdownPc, sdAfterStart, wpc,
                   workerLocals, cacheVars, marks, calls, eventsTable, processVars, bulkCalls, requestVars, dequeued,
                   filteredOut>>

\* Start, lines 58-64: the isRunning test and set under the mutex.
StartCall ==
    /\ IF isRunning
       THEN UNCHANGED <<isRunning, starting>>
       ELSE isRunning' = TRUE /\ starting' = TRUE
    /\ UNCHANGED <<eventChan, currentBatch, cancelled, wg, shutdownPc, sdAfterStart, wpc,
                   workerLocals, cacheVars, marks, calls, eventsTable, processVars, bulkCalls, requestVars, dequeued,
                   filteredOut>>

\* Start, lines 66-67: wg.Add(1) and go b.worker().
StartLaunch ==
    /\ starting
    /\ starting' = FALSE
    /\ wg' = wg + 1
    /\ wpc' = "select"
    /\ UNCHANGED <<eventChan, currentBatch, isRunning, cancelled, shutdownPc, sdAfterStart,
                   workerLocals, cacheVars, marks, calls, eventsTable, processVars, bulkCalls, requestVars, dequeued,
                   filteredOut>>

\* Shutdown that clears isRunning when it cancels, so that the batcher can be
\* started again.
ShutdownCallClearsRunning ==
    /\ shutdownPc # "waiting"
    /\ IF ~isRunning
       THEN UNCHANGED <<isRunning, cancelled, shutdownPc, sdAfterStart>>
       ELSE /\ cancelled' = TRUE
            /\ isRunning' = FALSE
            /\ shutdownPc' = "waiting"
            /\ sdAfterStart' = IF cancelled THEN sdAfterStart
                               ELSE (wpc # "none" /\ ~starting)
    /\ UNCHANGED <<eventChan, currentBatch, wg, starting, wpc, workerLocals,
                   cacheVars, marks, calls, eventsTable, processVars, bulkCalls, requestVars, dequeued, filteredOut>>

\* Shutdown, lines 210-218: return at once unless isRunning; else cancel.
ShutdownCall ==
    /\ shutdownPc # "waiting"
    /\ IF ~isRunning
       THEN UNCHANGED <<cancelled, shutdownPc, sdAfterStart>>
       ELSE /\ cancelled' = TRUE
            /\ shutdownPc' = "waiting"
            /\ sdAfterStart' = IF cancelled THEN sdAfterStart
                               ELSE (wpc # "none" /\ ~starting)
    /\ UNCHANGED <<eventChan, currentBatch, isRunning, wg, starting, wpc, workerLocals,
                   cacheVars, marks, calls, eventsTable, processVars, bulkCalls, requestVars, dequeued, filteredOut>>

\* Shutdown, lines 219-221: wg.Wait() returns when the counter is zero.
ShutdownReturn ==
    /\ shutdownPc = "waiting"
    /\ wg = 0
    /\ shutdownPc' = "returned"
    /\ UNCHANGED <<eventChan, currentBatch, isRunning, cancelled, wg, starting,
                   sdAfterStart, wpc, workerLocals, cacheVars, marks, calls, eventsTable, processVars, bulkCalls, requestVars,
                   dequeued, filteredOut>>

\* -------------------------------------------------------------- the worker
nonWorker == <<isRunning, cancelled, starting, shutdownPc, sdAfterStart, cacheVars,
               requestVars>>

\* A worker that puts the received event at the front of the current batch.
WorkerRecvPrepend ==
    /\ wpc = "select"
    /\ eventChan # << >>
    /\ eventChan' = Tail(eventChan)
    /\ currentBatch' = <<Head(eventChan)>> \o currentBatch
    /\ dequeued' = dequeued + 1
    /\ IF Len(currentBatch') >= BatchSize
       THEN wpc' = "flushBatch" /\ ret' = "select"
       ELSE UNCHANGED <<wpc, ret>>
    /\ UNCHANGED <<wg, batch, unprocessed, drained, marks, calls, eventsTable, processVars, bulkCalls, filteredOut>>
    /\ UNCHANGED nonWorker

\* worker, lines 96-104: receive one event, append, test the size.
WorkerRecv ==
    /\ wpc = "select"
    /\ eventChan # << >>
    /\ eventChan' = Tail(eventChan)
    /\ currentBatch' = Append(currentBatch, Head(eventChan))
    /\ dequeued' = dequeued + 1
    /\ IF Len(currentBatch') >= BatchSize
       THEN wpc' = "flushBatch" /\ ret' = "select"
       ELSE UNCHANGED <<wpc, ret>>
    /\ UNCHANGED <<wg, batch, unprocessed, drained, marks, calls, eventsTable, processVars, bulkCalls, filteredOut>>
    /\ UNCHANGED nonWorker

\* A worker whose ticker never flushes.
WorkerTickIdle ==
    /\ wpc = "select"
    /\ UNCHANGED vars

\* worker, lines 106-114: the ticker fired.
WorkerTick ==
    /\ wpc = "select"
    /\ IF Len(currentBatch) > 0
       THEN wpc' = "flushBatch" /\ ret' = "select"
       ELSE UNCHANGED <<wpc, ret>>
    /\ UNCHANGED <<eventChan, currentBatch, wg, batch, unprocessed, drained, marks, calls, eventsTable, processVars, bulkCalls,
                   dequeued, filteredOut>>
    /\ UNCHANGED nonWorker

\* worker, lines 91-93, and flushRemaining, lines 162-169: ctx.Done() was
\* selected; flush the current batch if it holds anything, then drain.
WorkerCancel ==
    /\ wpc = "select"
    /\ cancelled
    /\ IF Len(currentBatch) > 0
       THEN wpc' = "flushBatch" /\ ret' = "drain"
       ELSE wpc' = "drain" /\ UNCHANGED ret
    /\ drained' = 0
    /\ UNCHANGED <<eventChan, currentBatch, wg, batch, unprocessed, marks, calls, eventsTable, processVars, bulkCalls,
                   dequeued, filteredOut>>
    /\ UNCHANGED nonWorker

\* Where the worker goes when flushBatch returns; "exit" ends flushRemaining
\* and the worker, whose deferred wg.Done() runs.
Return(to) ==
    IF to = "exit"
    THEN wpc' = "done" /\ wg' = wg - 1
    ELSE wpc' = to /\ UNCHANGED wg

\* A flush that copies the current batch and leaves it in place.
FlushSnapshotKeep ==
    /\ wpc = "flushBatch"
    /\ IF Len(currentBatch) = 0
       THEN Return(ret) /\ UNCHANGED <<currentBatch, batch>>
       ELSE /\ batch' = currentBatch
            /\ UNCHANGED currentBatch
            /\ wpc' = "filter"
            /\ UNCHANGED wg
    /\ UNCHANGED <<eventChan, ret, unprocessed, drained, marks, calls, eventsTable, processVars, bulkCalls, dequeued,
                   filteredOut>>
    /\ UNCHANGED nonWorker

\* flushBatch, lines 121-131: snapshot and reset under the mutex.
FlushSnapshot ==
    /\ wpc = "flushBatch"
    /\ IF Len(currentBatch) = 0
       THEN Return(ret) /\ UNCHANGED <<currentBatch, batch>>
       ELSE /\ batch' = currentBatch
            /\ currentBatch' = << >>
            /\ wpc' = "filter"
            /\ UNCHANGED wg
    /\ UNCHANGED <<eventChan, ret, unprocessed, drained, marks, calls, eventsTable, processVars, bulkCalls, dequeued,
                   filteredOut>>
    /\ UNCHANGED nonWorker

\* A flush that hands the filter's result to the writer even when it is empty.
FlushFilterSaveEmpty ==
    /\ wpc = "filter"
    /\ ~cacheHung
    /\ LET u == filterProcessedEvents(batch, AreEventsProcessed(cache, batch, ~cacheUp))
       IN  /\ filteredOut' = filteredOut \cup (Range(batch) \ Range(u))
           /\ wpc' = "save"
           /\ unprocessed' = u
           /\ UNCHANGED <<wg, batch>>
    /\ UNCHANGED <<eventChan, currentBatch, ret, drained, marks, calls, eventsTable, processVars, bulkCalls, dequeued>>
    /\ UNCHANGED nonWorker

\* flushBatch, lines 134-139: the cache filter.
FlushFilter ==
    /\ wpc = "filter"
    /\ ~cacheHung
    /\ LET u == filterProcessedEvents(batch, AreEventsProcessed(cache, batch, ~cacheUp))
       IN  /\ filteredOut' = filteredOut \cup (Range(batch) \ Range(u))
           /\ IF Len(u) = 0
              THEN /\ Return(ret)
                   /\ batch' = << >>
                   /\ unprocessed' = << >>
              ELSE /\ wpc' = "save"
                   /\ unprocessed' = u
                   /\ UNCHANGED <<wg, batch>>
    /\ UNCHANGED <<eventChan, currentBatch, ret, drained, marks, calls, eventsTable, processVars, bulkCalls, dequeued>>
    /\ UNCHANGED nonWorker

\* A flush that puts the snapshot back into the current batch when the write
\* fails, to be written again by the next flush.
FlushSaveRequeue(storeOk) ==
    /\ wpc = "save"
    /\ LET err == SaveEvents(unprocessed, storeOk)
       IN  /\ calls' = Append(calls, [events |-> unprocessed, result |-> SaveResult(err)])
           /\ eventsTable' = Exec(eventsTable, SaveEventsInsert(unprocessed, TimeNow), storeOk)
           /\ marks' = IF err = Nil
                       THEN marks \cup {[events |-> unprocessed, via |-> "batcher"]}
                       ELSE marks
           /\ currentBatch' = IF err = Nil THEN currentBatch
                              ELSE unprocessed \o currentBatch
    /\ Return(ret)
    /\ batch' = << >>
    /\ unprocessed' = << >>
    /\ UNCHANGED <<eventChan, ret, drained, processVars, bulkCalls, dequeued, filteredOut>>
    /\ UNCHANGED nonWorker

\* A flush that starts the mark goroutine whatever the write returned.
FlushSaveMarkAlways(storeOk) ==
    /\ wpc = "save"
    /\ LET err == SaveEvents(unprocessed, storeOk)
       IN  /\ calls' = Append(calls, [events |-> unprocessed, result |-> SaveResult(err)])
           /\ eventsTable' = Exec(eventsTable, SaveEventsInsert(unprocessed, TimeNow), storeOk)
           /\ marks' = marks \cup {[events |-> unprocessed, via |-> "batcher"]}
    /\ Return(ret)
    /\ batch' = << >>
    /\ unprocessed' = << >>
    /\ UNCHANGED <<eventChan, currentBatch, ret, drained, processVars, bulkCalls, dequeued,
                   filteredOut>>
    /\ UNCHANGED nonWorker

\* flushBatch, lines 142-157: the write, and on success the mark goroutine.
FlushSave(storeOk) ==
    /\ wpc = "save"
    /\ LET err == SaveEvents(unprocessed, storeOk)
       IN  /\ calls' = Append(calls, [events |-> unprocessed, result |-> SaveResult(err)])
           /\ eventsTable' = Exec(eventsTable, SaveEventsInsert(unprocessed, TimeNow), storeOk)
           /\ marks' = IF err = Nil
                       THEN marks \cup {[events |-> unprocessed, via |-> "batcher"]}
                       ELSE marks
    /\ Return(ret)
    /\ batch' = << >>
    /\ unprocessed' = << >>
    /\ UNCHANGED <<eventChan, currentBatch, ret, drained, processVars, bulkCalls, dequeued,
                   filteredOut>>
    /\ UNCHANGED nonWorker

\* flushRemaining that returns without flushing what it drained.
FlushDrainedNever(n) == FALSE

\* flushRemaining, line 181: the drained events are flushed if there are any.
FlushDrained(n) == n > 0

\* flushRemaining, lines 173-187: the non-blocking drain loop, one turn.
Drain ==
    /\ wpc = "drain"
    /\ IF eventChan # << >>
       THEN /\ eventChan' = Tail(eventChan)
            /\ currentBatch' = Append(currentBatch, Head(eventChan))
            /\ dequeued' = dequeued + 1
            /\ drained' = drained + 1
            /\ UNCHANGED <<wpc, wg, ret>>
       ELSE /\ IF FlushDrained(drained)
               THEN wpc' = "flushBatch" /\ ret' = "exit" /\ UNCHANGED wg
               ELSE Return("exit") /\ UNCHANGED ret
            /\ drained' = 0
            /\ UNCHANGED <<eventChan, currentBatch, dequeued>>
    /\ UNCHANGED <<batch, unprocessed, marks, calls, eventsTable, processVars, bulkCalls, filteredOut>>
    /\ UNCHANGED nonWorker

\* ------------------------------------------------------------- validation
\* The strings strings.TrimSpace reduces to "".
Blank == {"", " "}

\* Request bodies as the handler decodes them. A slice or map that JSON left
\* out is nil; tags carries its items and metadata its keys.
EventRequests ==
    [event_name : {"click", "click|ad"},
     user_id : {"u1", "ad|u1", " "},
     timestamp : {Now - 1, Now, Now + 1},
     channel : {"web", " "},
     campaign_id : {"summer", "winter", "", " "},
     tags : {[nil |-> TRUE, items |-> << >>], [nil |-> FALSE, items |-> <<"mobile">>]},
     metadata : {[nil |-> TRUE, keys |-> {}], [nil |-> FALSE, keys |-> {"plan"}]}]

\* ValidateEventRequest: the message of the first failed test, or nil.
ValidateEventRequest(request) ==
    IF request.event_name \in Blank THEN "event_name is required"
    ELSE IF request.channel \in Blank THEN "channel is required"
    ELSE IF request.timestamp <= 0
         THEN "timestamp is required and must be a positive integer"
    ELSE IF request.timestamp > Now THEN "timestamp cannot be in the future"
    ELSE IF request.user_id = "" THEN "user_id is required"
    ELSE IF request.campaign_id = "" THEN "campaign_id is required"
    ELSE IF request.tags.nil THEN "tags is required"
    ELSE IF \E i \in 1..Len(request.tags.items) : request.tags.items[i] \in Blank
         THEN "tags cannot be empty"
    ELSE IF request.metadata.nil THEN "metadata is required"
    ELSE IF \E k \in request.metadata.keys : k \in Blank
         THEN "metadata keys cannot be empty"
    ELSE Nil

\* The handler validates two decoded requests; the fingerprint of each is
\* what the service looks up for it.
ValidateAndFingerprint ==
    /\ last.op = "request"
    /\ last' = [op |-> "GetUniqueKey",
                a |-> last.a, ka |-> GetUniqueKey(last.a),
                va |-> ValidateEventRequest(last.a),
                b |-> last.b, kb |-> GetUniqueKey(last.b),
                vb |-> ValidateEventRequest(last.b)]
    /\ UNCHANGED <<batcherVars, cacheVars, marks, calls, eventsTable, processVars, bulkCalls, nextTag, accepted,
                   lateEnq, dequeued, filteredOut>>

\* ------------------------------------------------- the cache's own actions
\* A mark goroutine runs SetMultipleEventsProcessed; its error is only logged.
\* A closed client returns an error.
MarkDone(t) ==
    /\ t \in marks
    /\ ~cacheHung
    /\ marks' = marks \ {t}
    /\ cache' = IF cacheUp /\ mainPc # "cacheClosed"
                THEN SetMultipleEventsProcessed(cache, t.events, expirationMilliseconds)
                ELSE cache
    /\ UNCHANGED <<batcherVars, cacheUp, cacheEverDown, expirationMilliseconds, calls, eventsTable, processVars,
                   bulkCalls, requestVars, dequeued, filteredOut>>

\* The cache client called directly: SetEventProcessed.
CallSetEventProcessed(ident) ==
    /\ cache' = IF cacheUp
                THEN SetEventProcessed(cache, MkEvent(ident, 1), expirationMilliseconds)
                ELSE cache
    /\ last' = [op |-> "SetEventProcessed", events |-> <<MkEvent(ident, 1)>>]
    /\ UNCHANGED <<batcherVars, cacheUp, cacheEverDown, expirationMilliseconds, marks,
                   calls, eventsTable, processVars, bulkCalls, nextTag, accepted, lateEnq, dequeued, filteredOut>>

\* The cache client called directly: SetMultipleEventsProcessed.
CallSetMultipleEventsProcessed(idents) ==
    LET events == [i \in 1..Len(idents) |-> MkEvent(idents[i], i)]
    IN  /\ cache' = IF cacheUp
                    THEN SetMultipleEventsProcessed(cache, events, expirationMilliseconds)
                    ELSE cache
        /\ last' = [op |-> "SetMultipleEventsProcessed", events |-> events]
        /\ UNCHANGED <<batcherVars, cacheUp, cacheEverDown, expirationMilliseconds, marks,
                       calls, eventsTable, processVars, bulkCalls, nextTag, accepted, lateEnq, dequeued, filteredOut>>

\* The cache client called directly: IsEventProcessed.
CallIsEventProcessed(ident) ==
    LET r == IsEventProcessed(cache, MkEvent(ident, 1), ~cacheUp)
    IN  /\ last' = [op |-> "IsEventProcessed", event |-> MkEvent(ident, 1),
                    processed |-> r.processed, err |-> r.err]
        /\ UNCHANGED <<batcherVars, cacheVars, marks, calls, eventsTable, processVars, bulkCalls, nextTag, accepted,
                       lateEnq, dequeued, filteredOut>>

\* The cache client called directly: AreEventsProcessed, and the callers'
\* filter on its result.
CallAreEventsProcessed(idents) ==
    LET events == [i \in 1..Len(idents) |-> MkEvent(idents[i], i)]
        r == AreEventsProcessed(cache, events, ~cacheUp)
    IN  /\ last' = [op |-> "AreEventsProcessed", events |-> events, err |-> r.err,
                    unprocessed |-> filterProcessedEvents(events, r)]
        /\ UNCHANGED <<batcherVars, cacheVars, marks, calls, eventsTable, processVars, bulkCalls, nextTag, accepted,
                       lateEnq, dequeued, filteredOut>>

\* Redis drops a key whose TTL has run out.
Expire(k) ==
    /\ k \in DOMAIN cache
    /\ cache' = [j \in DOMAIN cache \ {k} |-> cache[j]]
    /\ UNCHANGED <<batcherVars, cacheUp, cacheEverDown, expirationMilliseconds, marks,
                   calls, eventsTable, processVars, bulkCalls, requestVars, dequeued, filteredOut>>

\* ---------------------------------------------------- the store's own calls
\* Requests as SaveEvents receives them: a duplicate of the first with another
\* payload and nil metadata, an empty metadata map, and a metadata value JSON
\* cannot represent.
WriteRequests ==
    { [event_name |-> "click", channel |-> "web", campaign_id |-> "summer",
       user_id |-> "u1", timestamp |-> Now - 100,
       tags |-> [nil |-> FALSE, items |-> <<"mobile", "premium">>],
       metadata |-> [nil |-> FALSE, keys |-> {"tier", "plan"},
                     at |-> [k \in {"tier", "plan"} |->
                               [kind |-> "string",
                                text |-> IF k = "plan" THEN "pro" ELSE "gold"]]]],
      [event_name |-> "click", channel |-> "web", campaign_id |-> "winter",
       user_id |-> "u1", timestamp |-> Now - 100,
       tags |-> [nil |-> FALSE, items |-> << >>],
       metadata |-> [nil |-> TRUE, keys |-> {}, at |-> << >>]],
      [event_name |-> "view", channel |-> "app", campaign_id |-> "summer",
       user_id |-> "u2", timestamp |-> Now - 3600,
       tags |-> [nil |-> FALSE, items |-> <<"mobile">>],
       metadata |-> [nil |-> FALSE, keys |-> {}, at |-> << >>]],
      [event_name |-> "view", channel |-> "web", campaign_id |-> "winter",
       user_id |-> "u2", timestamp |-> Now,
       tags |-> [nil |-> FALSE, items |-> << >>],
       metadata |-> [nil |-> FALSE, keys |-> {"plan"},
                     at |-> [k \in {"plan"} |-> [kind |-> "NaN", text |-> ""]]]] }

WriteInputs == UNION { [1..n -> WriteRequests] : n \in 0..MaxWrite }

\* SaveEvents called with a list of requests.
CallSaveEvents(requests, storeOk) ==
    /\ Len(eventsTable) + Len(requests) <= MaxWrite
    /\ eventsTable' = Exec(eventsTable, SaveEventsInsert(requests, TimeNow), storeOk)
    /\ last' = [op |-> "SaveEvents", requests |-> requests,
                err |-> SaveEvents(requests, storeOk),
                inserts |-> SaveEventsInsert(requests, TimeNow)]
    /\ UNCHANGED <<batcherVars, cacheVars, processVars, marks, calls, bulkCalls, nextTag, accepted,
                   lateEnq, dequeued, filteredOut>>

\* ------------------------------------------------------------- the metrics
\* Pointer fields of MetricRequest.
NilPtr == [nil |-> TRUE]

Ptr(v) == [nil |-> FALSE, v |-> v]

\* Two decimal digits, as ClickHouse prints months, days, hours, minutes and
\* seconds.
Pad2(n) == IF n < 10 THEN "0" \o ToString(n) ELSE ToString(n)

\* The civil date of a day number (days since 1970-01-01, UTC).
CivilFromDays(days) ==
    LET z == days + 719468
        era == z \div 146097
        doe == z - era * 146097
        yoe == (doe - doe \div 1460 + doe \div 36524 - doe \div 146096) \div 365
        doy == doe - (365 * yoe + yoe \div 4 - yoe \div 100)
        mp == (5 * doy + 2) \div 153
        d == doy - (153 * mp + 2) \div 5 + 1
        m == IF mp < 10 THEN mp + 3 ELSE mp - 9
    IN  [y |-> yoe + era * 400 + (IF m <= 2 THEN 1 ELSE 0), m |-> m, d |-> d]

\* The day number of a civil date.
DaysFromCivil(y, m, d) ==
    LET yy == IF m <= 2 THEN y - 1 ELSE y
        era == yy \div 400
        yoe == yy - era * 400
        doy == (153 * (IF m > 2 THEN m - 3 ELSE m + 9) + 2) \div 5 + d - 1
        doe == yoe * 365 + yoe \div 4 - yoe \div 100 + doy
    IN  era * 146097 + doe - 719468

\* toString of a Date and of a DateTime, server time zone UTC.
DateToString(days) ==
    LET c == CivilFromDays(days)
    IN  ToString(c.y) \o "-" \o Pad2(c.m) \o "-" \o Pad2(c.d)

DateTimeToString(t) ==
    DateToString(t \div 86400) \o " " \o Pad2((t % 86400) \div 3600) \o ":"
        \o Pad2((t % 3600) \div 60) \o ":" \o Pad2(t % 60)

\* toStartOfHour and toStartOfDay return a DateTime; toStartOfWeek (weeks
\* begin on Sunday), toStartOfMonth and toStartOfYear return a Date.
toStartOfHour(t) == t - (t % 3600)

toStartOfDay(t) == t - (t % 86400)

toStartOfWeek(t) == (t \div 86400) - ((t \div 86400 + 4) % 7)

toStartOfMonth(t) ==
    LET c == CivilFromDays(t \div 86400) IN DaysFromCivil(c.y, c.m, 1)

toStartOfYear(t) ==
    LET c == CivilFromDays(t \div 86400) IN DaysFromCivil(c.y, 1, 1)

\* GetMetrics, lines 257-280: the allowlist of group_by values and the
\* expression each stands for.
GroupExprs ==
    [hour |-> "toString(toStartOfHour(timestamp))",
     day |-> "toString(toStartOfDay(timestamp))",
     week |-> "toString(toStartOfWeek(timestamp))",
     month |-> "toString(toStartOfMonth(timestamp))",
     year |-> "toString(toStartOfYear(timestamp))",
     channel |-> "channel",
     campaign_id |-> "campaign_id",
     user_id |-> "user_id",
     event_name |-> "event_name"]

\* The value of a bucket expression on a row; ClickHouse knows no other
\* expression of this form.
KnownExprs == { GroupExprs[g] : g \in DOMAIN GroupExprs }

BucketOf(expr, row) ==
    CASE expr = "toString(toStartOfHour(timestamp))" ->
            DateTimeToString(toStartOfHour(row.timestamp))
      [] expr = "toString(toStartOfDay(timestamp))" ->
            DateTimeToString(toStartOfDay(row.timestamp))
      [] expr = "toString(toStartOfWeek(timestamp))" ->
            DateToString(toStartOfWeek(row.timestamp))
      [] expr = "toString(toStartOfMonth(timestamp))" ->
            DateToString(toStartOfMonth(row.timestamp))
      [] expr = "toString(toStartOfYear(timestamp))" ->
            DateToString(toStartOfYear(row.timestamp))
      [] expr = "channel" -> row.channel
      [] expr = "campaign_id" -> row.campaign_id
      [] expr = "user_id" -> row.user_id
      [] expr = "event_name" -> row.event_name

\* The bucket strings of the rows given here, in ascending byte order.
Collation ==
    <<"2022-01-01", "2022-11-01", "2022-11-13", "2022-11-14 00:00:00",
      "2022-11-14 22:00:00", "2023-01-01", "2023-11-01", "2023-11-12",
      "2023-11-12 00:00:00", "2023-11-12 22:00:00", "2023-11-14 00:00:00",
      "2023-11-14 21:00:00", "2023-11-14 22:00:00", "app", "click", "summer", "total",
      "u1", "u2", "view", "web", "winter">>

StringLess(a, b) ==
    (CHOOSE i \in 1..Len(Collation) : Collation[i] = a)
        < (CHOOSE i \in 1..Len(Collation) : Collation[i] = b)

\* A planner that inlines a group_by value it does not know.
GetMetricsQueryInlineGroupBy(request) ==
    LET groupExpr ==
            IF request.group_by.nil THEN ""
            ELSE IF request.group_by.v \in DOMAIN GroupExprs
                 THEN GroupExprs[request.group_by.v]
            ELSE request.group_by.v
    IN  [table |-> "events FINAL",
         columns |-> <<IF groupExpr # "" THEN groupExpr \o " AS bucket"
                       ELSE "'total' AS bucket",
                       "count() AS total_events", "uniqExact(user_id) AS unique_users">>,
         where |->
            (IF ~request.event_name.nil /\ request.event_name.v # ""
             THEN <<[expr |-> "event_name = ?", arg |-> [string |-> request.event_name.v]]>>
             ELSE << >>)
            \o (IF ~request.from.nil
                THEN <<[expr |-> "timestamp >= ?", arg |-> [time |-> request.from.v]]>>
                ELSE << >>)
            \o (IF ~request.to.nil
                THEN <<[expr |-> "timestamp <= ?", arg |-> [time |-> request.to.v]]>>
                ELSE << >>),
         group |-> groupExpr,
         order |-> IF groupExpr # "" THEN "bucket ASC" ELSE ""]

\* A planner that leaves the to filter out.
GetMetricsQueryNoToFilter(request) ==
    LET groupExpr ==
            IF request.group_by.nil THEN ""
            ELSE IF request.group_by.v \in DOMAIN GroupExprs
                 THEN GroupExprs[request.group_by.v]
            ELSE ""
    IN  [table |-> "events FINAL",
         columns |-> <<IF groupExpr # "" THEN groupExpr \o " AS bucket"
                       ELSE "'total' AS bucket",
                       "count() AS total_events", "uniqExact(user_id) AS unique_users">>,
         where |->
            (IF ~request.event_name.nil /\ request.event_name.v # ""
             THEN <<[expr |-> "event_name = ?", arg |-> [string |-> request.event_name.v]]>>
             ELSE << >>)
            \o (IF ~request.from.nil
                THEN <<[expr |-> "timestamp >= ?", arg |-> [time |-> request.from.v]]>>
                ELSE << >>),
         group |-> groupExpr,
         order |-> IF groupExpr # "" THEN "bucket ASC" ELSE ""]

\* A planner that applies the event_name filter only to ungrouped queries.
GetMetricsQueryFilterUngrouped(request) ==
    LET groupExpr ==
            IF request.group_by.nil THEN ""
            ELSE IF request.group_by.v \in DOMAIN GroupExprs
                 THEN GroupExprs[request.group_by.v]
            ELSE ""
    IN  [table |-> "events FINAL",
         columns |-> <<IF groupExpr # "" THEN groupExpr \o " AS bucket"
                       ELSE "'total' AS bucket",
                       "count() AS total_events", "uniqExact(user_id) AS unique_users">>,
         where |->
            (IF ~request.event_name.nil /\ request.event_name.v # "" /\ groupExpr = ""
             THEN <<[expr |-> "event_name = ?", arg |-> [string |-> request.event_name.v]]>>
             ELSE << >>)
            \o (IF ~request.from.nil
                THEN <<[expr |-> "timestamp >= ?", arg |-> [time |-> request.from.v]]>>
                ELSE << >>)
            \o (IF ~request.to.nil
                THEN <<[expr |-> "timestamp <= ?", arg |-> [time |-> request.to.v]]>>
                ELSE << >>),
         group |-> groupExpr,
         order |-> IF groupExpr # "" THEN "bucket ASC" ELSE ""]

\* A planner that reads the table without FINAL.
GetMetricsQueryNoFinal(request) ==
    LET groupExpr ==
            IF request.group_by.nil THEN ""
            ELSE IF request.group_by.v \in DOMAIN GroupExprs
                 THEN GroupExprs[request.group_by.v]
            ELSE ""
    IN  [table |-> "events",
         columns |-> <<IF groupExpr # "" THEN groupExpr \o " AS bucket"
                       ELSE "'total' AS bucket",
                       "count() AS total_events", "uniqExact(user_id) AS unique_users">>,
         where |->
            (IF ~request.event_name.nil /\ request.event_name.v # ""
             THEN <<[expr |-> "event_name = ?", arg |-> [string |-> request.event_name.v]]>>
             ELSE << >>)
            \o (IF ~request.from.nil
                THEN <<[expr |-> "timestamp >= ?", arg |-> [time |-> request.from.v]]>>
                ELSE << >>)
            \o (IF ~request.to.nil
                THEN <<[expr |-> "timestamp <= ?", arg |-> [time |-> request.to.v]]>>
                ELSE << >>),
         group |-> groupExpr,
         order |-> IF groupExpr # "" THEN "bucket ASC" ELSE ""]

\* GetMetrics, lines 254-310: the query built for a request. Only the bucket
\* expression is written into the text; the filter values are bound.
GetMetricsQuery(request) ==
    LET groupExpr ==
            IF request.group_by.nil THEN ""
            ELSE IF request.group_by.v \in DOMAIN GroupExprs
                 THEN GroupExprs[request.group_by.v]
            ELSE ""
    IN  [table |-> "events FINAL",
         columns |-> <<IF groupExpr # "" THEN groupExpr \o " AS bucket"
                       ELSE "'total' AS bucket",
                       "count() AS total_events", "uniqExact(user_id) AS unique_users">>,
         where |->
            (IF ~request.event_name.nil /\ request.event_name.v # ""
             THEN <<[expr |-> "event_name = ?", arg |-> [string |-> request.event_name.v]]>>
             ELSE << >>)
            \o (IF ~request.from.nil
                THEN <<[expr |-> "timestamp >= ?", arg |-> [time |-> request.from.v]]>>
                ELSE << >>)
            \o (IF ~request.to.nil
                THEN <<[expr |-> "timestamp <= ?", arg |-> [time |-> request.to.v]]>>
                ELSE << >>),
         group |-> groupExpr,
         order |-> IF groupExpr # "" THEN "bucket ASC" ELSE ""]

\* The sorting key of the table: ORDER BY timestamp, event_name, channel, user_id.
SortingKey(row) == <<row.timestamp, row.event_name, row.channel, row.user_id>>

\* FINAL on ReplacingMergeTree(ingested_at): of the rows with one sorting key
\* the one with the greatest ingested_at remains, the last inserted among equals.
Final(table) ==
    SelectSeq([i \in 1..Len(table) |-> [pos |-> i, row |-> table[i]]],
              LAMBDA x : \A j \in 1..Len(table) :
                  (j # x.pos /\ SortingKey(table[j]) = SortingKey(x.row)) =>
                      \/ table[j].ingested_at < x.row.ingested_at
                      \/ table[j].ingested_at = x.row.ingested_at /\ j < x.pos)

\* One WHERE clause on one row.
Holds(clause, row) ==
    CASE clause.expr = "event_name = ?" -> row.event_name = clause.arg.string
      [] clause.expr = "timestamp >= ?" -> row.timestamp >= clause.arg.time
      [] clause.expr = "timestamp <= ?" -> row.timestamp <= clause.arg.time

\* The rows a query reads: the table, merged when read with FINAL, and of
\* these the rows on which every WHERE clause holds.
Select(table, query) ==
    SelectSeq(IF query.table = "events FINAL"
              THEN [i \in 1..Len(Final(table)) |-> Final(table)[i].row]
              ELSE table,
              LAMBDA r : \A i \in 1..Len(query.where) : Holds(query.where[i], r))

\* count() and uniqExact(user_id) over the rows at the given positions.
Result(label, rows, S) ==
    [bucket |-> label, total_events |-> Cardinality(S),
     unique_users |-> Cardinality({ rows[i].user_id : i \in S })]

\* The groups in the order of the result: ascending with ORDER BY bucket ASC,
\* in no particular order without.
OrderBy(order, buckets) ==
    CHOOSE q \in [1..Cardinality(buckets) -> buckets] :
        /\ \A i, j \in DOMAIN q : i < j => q[i] # q[j]
        /\ order = "bucket ASC" => \A i, j \in DOMAIN q : i < j => StringLess(q[i], q[j])

\* One result row per group.
GroupBy(expr, rows, sorted) ==
    [k \in 1..Len(sorted) |->
        Result(sorted[k], rows, { i \in 1..Len(rows) : BucketOf(expr, rows[i]) = sorted[k] })]

\* An aggregate without GROUP BY returns one row, for an empty input as well.
Aggregate(query, rows) ==
    IF query.group = ""
    THEN [results |-> <<Result("total", rows, 1..Len(rows))>>, err |-> Nil]
    ELSE IF query.group \notin KnownExprs
         THEN [results |-> << >>, err |-> "clickhouse: syntax error"]
    ELSE [results |->
              GroupBy(query.group, rows,
                      OrderBy(query.order,
                              { BucketOf(query.group, rows[i]) : i \in 1..Len(rows) })),
          err |-> Nil]

\* query.Scan: ClickHouse runs the query.
Scan(table, query, storeOk) ==
    IF ~storeOk THEN [results |-> << >>, err |-> "clickhouse: connection refused"]
    ELSE Aggregate(query, Select(table, query))

\* ClickHouseDB.GetMetrics: the query is built and run.
GetMetrics(table, request, storeOk) == Scan(table, GetMetricsQuery(request), storeOk)

\* eventService.GetMetrics, lines 95-118: the response for what the store returned.
MetricResponse(r) ==
    IF r.err # Nil
    THEN [resp |-> [success |-> FALSE,
                    message |-> "Failed to retrieve metrics: " \o r.err,
                    metrics |-> << >>],
          err |-> r.err]
    ELSE [resp |-> [success |-> TRUE, message |-> "Metrics retrieved successfully",
                    metrics |-> r.results],
          err |-> Nil]

\* eventService.GetMetrics.
GetMetricsService(table, request, storeOk) ==
    MetricResponse(GetMetrics(table, request, storeOk))

\* strconv.ParseInt on the from and to parameters clients send.
Decimals == {Now - 4000, Now - 1000, Now + 1}

ParseInt(str) ==
    IF \E n \in Decimals : ToString(n) = str
    THEN [v |-> CHOOSE n \in Decimals : ToString(n) = str, err |-> Nil]
    ELSE [v |-> 0, err |-> "strconv.ParseInt: parsing \"" \o str \o "\": invalid syntax"]

\* ValidateMetricRequest: the message of the first failed test, or nil.
ValidateMetricRequest(request) ==
    IF ~request.from.nil /\ request.from.v <= 0 THEN "from must be a positive integer"
    ELSE IF ~request.from.nil /\ request.from.v > Now THEN "from cannot be in the future"
    ELSE IF ~request.to.nil /\ request.to.v <= 0 THEN "to must be a positive integer"
    ELSE IF ~request.to.nil /\ request.to.v > Now THEN "to cannot be in the future"
    ELSE IF ~request.from.nil /\ ~request.to.nil /\ request.from.v > request.to.v
         THEN "from cannot be greater than to"
    ELSE IF ~request.group_by.nil /\ request.group_by.v \in Blank
         THEN "group_by cannot be empty if provided"
    ELSE IF ~request.event_name.nil /\ request.event_name.v \in Blank
         THEN "event_name cannot be empty if provided"
    ELSE Nil

\* The MetricRequest the handler builds from the query parameters.
ParseMetricRequest(params) ==
    [event_name |-> IF params.event_name # "" THEN Ptr(params.event_name) ELSE NilPtr,
     from |-> IF params.from # "" THEN Ptr(ParseInt(params.from).v) ELSE NilPtr,
     to |-> IF params.to # "" THEN Ptr(ParseInt(params.to).v) ELSE NilPtr,
     group_by |-> IF params.group_by # "" THEN Ptr(params.group_by) ELSE NilPtr]

\* eventHandler.GetMetrics, lines 127-135: the reply for what the service returned.
Reply(query, r) ==
    IF r.err # Nil
    THEN [status |-> 500, query |-> query,
          body |-> [success |-> FALSE, message |-> "Internal server error: " \o r.err,
                    metrics |-> r.resp.metrics]]
    ELSE [status |-> 200, query |-> query, body |-> r.resp]

\* A reply that ends the request before the service is called.
BadRequest(message) ==
    [status |-> 400, query |-> << >>,
     body |-> [success |-> FALSE, message |-> message, metrics |-> << >>]]

\* eventHandler.GetMetrics: parse, validate, query.
GetMetricsHandler(table, params, storeOk) ==
    IF params.from # "" /\ ParseInt(params.from).err # Nil
    THEN BadRequest("Invalid 'from' parameter: " \o ParseInt(params.from).err)
    ELSE IF params.to # "" /\ ParseInt(params.to).err # Nil
    THEN BadRequest("Invalid 'to' parameter: " \o ParseInt(params.to).err)
    ELSE IF ValidateMetricRequest(ParseMetricRequest(params)) # Nil
    THEN BadRequest("Validation failed: "
                        \o ValidateMetricRequest(ParseMetricRequest(params)))
    ELSE Reply(GetMetricsQuery(ParseMetricRequest(params)),
               GetMetricsService(table, ParseMetricRequest(params), storeOk))

\* The query parameters of GET /metrics requests.
MetricParams ==
    [event_name : {"", "click", " "},
     from : {"", "abc", ToString(Now - 4000)},
     to : {"", ToString(Now - 1000), ToString(Now + 1)},
     group_by : DOMAIN GroupExprs \cup {"", ";DROP TABLE events", "Hour", " "}]

\* GET /metrics: the handler serves the request that has arrived.
ServeGetMetrics(storeOk) ==
    /\ last.op = "request"
    /\ last' = [op |-> "GetMetrics", params |-> last.params, storeOk |-> storeOk,
                reply |-> GetMetricsHandler(eventsTable, last.params, storeOk)]
    /\ UNCHANGED <<batcherVars, cacheVars, marks, calls, eventsTable, processVars, bulkCalls, nextTag,
                   accepted, lateEnq, dequeued, filteredOut>>

\* Redis becomes unavailable, or available again.
CacheFlip ==
    /\ cacheUp' = ~cacheUp
    /\ cacheEverDown' = TRUE
    /\ UNCHANGED <<batcherVars, cache, expirationMilliseconds, marks, calls, eventsTable, processVars, bulkCalls,
                   requestVars, dequeued, filteredOut>>

\* -------------------------------------------------------------------- Next
\* The batcher and the single-event path, from construction of the batcher.
Next ==
    \/ \E ident \in Identities : PostEvent(ident)
    \/ StartCall
    \/ StartLaunch
    \/ ShutdownCall
    \/ ShutdownReturn
    \/ WorkerRecv
    \/ WorkerTick
    \/ WorkerCancel
    \/ FlushSnapshot
    \/ FlushFilter
    \/ \E storeOk \in BOOLEAN : FlushSave(storeOk)
    \/ Drain
    \/ \E t \in marks : MarkDone(t)
    \/ CacheFlip

Spec == Init /\ [][Next]_vars

\* The service as main runs it: NewEventService has built the batcher and
\* Start has returned before the first request is served.
InitServing ==
    \E c \in InitialCaches :
        /\ eventChan = << >>
        /\ currentBatch = << >>
        /\ isRunning = TRUE
        /\ cancelled = FALSE
        /\ wg = 1
        /\ starting = FALSE
        /\ shutdownPc = "idle"
        /\ wpc = "select"
        /\ ret = "select"
        /\ batch = << >>
        /\ unprocessed = << >>
        /\ drained = 0
        /\ cache = c
        /\ cacheUp = TRUE
        /\ marks = {}
        /\ calls = << >>
        /\ bulkCalls = << >>
        /\ nextTag = 1
        /\ last = [op |-> "none"]
        /\ accepted = << >>
        /\ dequeued = 0
        /\ filteredOut = {}
        /\ cacheEverDown = FALSE
        /\ lateEnq = FALSE
        /\ sdAfterStart = FALSE
        /\ expirationMilliseconds = 60 * 60 * 1000
        /\ eventsTable = << >>
        /\ mainPc = "serving"
        /\ mu = "free"
        /\ cacheHung = FALSE

\* Both ingestion paths against the running batcher, the cache and the store.
NextServing ==
    \/ \E ident \in Identities : PostEvent(ident)
    \/ \E idents \in BulkInputs, storeOk \in BOOLEAN : PostBulk(idents, storeOk)
    \/ WorkerRecv
    \/ WorkerTick
    \/ FlushSnapshot
    \/ FlushFilter
    \/ \E storeOk \in BOOLEAN : FlushSave(storeOk)
    \/ \E t \in marks : MarkDone(t)
    \/ CacheFlip

SpecServing == InitServing /\ [][NextServing]_vars

\* Two requests arriving at the handler, as far as validation and fingerprint.
InitFingerprint ==
    /\ eventChan = << >>
    /\ currentBatch = << >>
    /\ isRunning = FALSE
    /\ cancelled = FALSE
    /\ wg = 0
    /\ starting = FALSE
    /\ shutdownPc = "idle"
    /\ wpc = "none"
    /\ ret = "select"
    /\ batch = << >>
    /\ unprocessed = << >>
    /\ drained = 0
    /\ cache = << >>
    /\ cacheUp = TRUE
    /\ marks = {}
    /\ calls = << >>
    /\ bulkCalls = << >>
    /\ nextTag = 1
    /\ last \in { [op |-> "request", a |-> x, b |-> y] : x, y \in EventRequests }
    /\ accepted = << >>
    /\ dequeued = 0
    /\ filteredOut = {}
    /\ cacheEverDown = FALSE
    /\ lateEnq = FALSE
    /\ sdAfterStart = FALSE
    /\ expirationMilliseconds = 60 * 60 * 1000
    /\ eventsTable = << >>
    /\ mainPc = "serving"
    /\ mu = "free"
    /\ cacheHung = FALSE

NextFingerprint == ValidateAndFingerprint

SpecFingerprint == InitFingerprint /\ [][NextFingerprint]_vars

\* The cache client on its own. Redis holds what earlier runs and other
\* clients left: a mark for user_1, and values other than "1" under any key.
CacheKeys == { RedisKey(MkEvent(i, 1)) : i \in Identities }

CacheStates ==
    { c \in UNION { [K -> {"1", "0"}] : K \in SUBSET CacheKeys } :
        \A k \in DOMAIN c : c[k] = "1" => \E ic \in InitialCaches : k \in DOMAIN ic }

CacheDurations == {0 - 1, 0, 500, 60 * 60 * 1000}

InitCache ==
    /\ eventChan = << >>
    /\ currentBatch = << >>
    /\ isRunning = FALSE
    /\ cancelled = FALSE
    /\ wg = 0
    /\ starting = FALSE
    /\ shutdownPc = "idle"
    /\ wpc = "none"
    /\ ret = "select"
    /\ batch = << >>
    /\ unprocessed = << >>
    /\ drained = 0
    /\ cache \in CacheStates
    /\ cacheUp = TRUE
    /\ marks = {}
    /\ calls = << >>
    /\ bulkCalls = << >>
    /\ nextTag = 1
    /\ last = [op |-> "none"]
    /\ accepted = << >>
    /\ dequeued = 0
    /\ filteredOut = {}
    /\ cacheEverDown = FALSE
    /\ lateEnq = FALSE
    /\ sdAfterStart = FALSE
    /\ expirationMilliseconds \in CacheDurations
    /\ eventsTable = << >>
    /\ mainPc = "serving"
    /\ mu = "free"
    /\ cacheHung = FALSE

NextCache ==
    \/ \E ident \in Identities : CallSetEventProcessed(ident)
    \/ \E idents \in BulkInputs : CallSetMultipleEventsProcessed(idents)
    \/ \E ident \in Identities : CallIsEventProcessed(ident)
    \/ \E idents \in BulkInputs : CallAreEventsProcessed(idents)
    \/ \E k \in DOMAIN cache : Expire(k)
    \/ CacheFlip

SpecCache == InitCache /\ [][NextCache]_vars

\* The store on its own: SaveEvents called directly.
InitWrite == Init

NextWrite == \E requests \in WriteInputs, storeOk \in BOOLEAN : CallSaveEvents(requests, storeOk)

SpecWrite == InitWrite /\ [][NextWrite]_vars

\* The events the metrics are read over: those of WriteRequests that can be
\* stored, and others in the same hour, in the same week, and a year before.
StoredRequests ==
    { w \in WriteRequests : metadataJSON(w).err = Nil } \cup
    { [event_name |-> "click", channel |-> "app", campaign_id |-> "winter",
       user_id |-> "u2", timestamp |-> Now - 100,
       tags |-> [nil |-> FALSE, items |-> << >>],
       metadata |-> [nil |-> FALSE, keys |-> {}, at |-> << >>]],
      [event_name |-> "click", channel |-> "web", campaign_id |-> "summer",
       user_id |-> "u2", timestamp |-> Now - 2 * 86400,
       tags |-> [nil |-> FALSE, items |-> << >>],
       metadata |-> [nil |-> FALSE, keys |-> {}, at |-> << >>]],
      [event_name |-> "view", channel |-> "app", campaign_id |-> "winter",
       user_id |-> "u1", timestamp |-> Now - 365 * 86400,
       tags |-> [nil |-> FALSE, items |-> << >>],
       metadata |-> [nil |-> FALSE, keys |-> {}, at |-> << >>]] }

\* The table after the given requests were written one call after another.
TableAfter(requests) ==
    LET t[i \in 0..Len(requests)] ==
            IF i = 0 THEN << >>
            ELSE Exec(t[i - 1], SaveEventsInsert(<<requests[i]>>, Now + Len(t[i - 1])), TRUE)
    IN  t[Len(requests)]

\* GET /metrics over a store that earlier writes have filled.
InitMetrics ==
    /\ eventChan = << >>
    /\ currentBatch = << >>
    /\ isRunning = FALSE
    /\ cancelled = FALSE
    /\ wg = 0
    /\ starting = FALSE
    /\ shutdownPc = "idle"
    /\ wpc = "none"
    /\ ret = "select"
    /\ batch = << >>
    /\ unprocessed = << >>
    /\ drained = 0
    /\ cache = << >>
    /\ cacheUp = TRUE
    /\ marks = {}
    /\ calls = << >>
    /\ bulkCalls = << >>
    /\ nextTag = 1
    /\ last \in { [op |-> "request", params |-> p] : p \in MetricParams }
    /\ accepted = << >>
    /\ dequeued = 0
    /\ filteredOut = {}
    /\ cacheEverDown = FALSE
    /\ lateEnq = FALSE
    /\ sdAfterStart = FALSE
    /\ expirationMilliseconds = 60 * 60 * 1000
    /\ eventsTable \in { TableAfter(w) :
                            w \in UNION { [1..n -> StoredRequests] : n \in 0..MaxStored } }
    /\ mainPc = "serving"
    /\ mu = "free"
    /\ cacheHung = FALSE

NextMetrics == \E storeOk \in BOOLEAN : ServeGetMetrics(storeOk)

SpecMetrics == InitMetrics /\ [][NextMetrics]_vars

\* ------------------------------------------------------- the batcher alone
\* Enqueue called by a producer that holds the batcher, whatever its state.
EnqueueCall(ident) ==
    /\ nextTag <= MaxRace
    /\ LET e == MkEvent(ident, nextTag)
           r == Enqueue(eventChan, e)
       IN  /\ eventChan' = r.chan
           /\ accepted' = IF r.err = Nil THEN Append(accepted, e) ELSE accepted
           /\ lateEnq' = (lateEnq \/ (r.err = Nil /\ cancelled))
           /\ last' = [op |-> "Enqueue", event |-> e, err |-> r.err,
                       room |-> Len(eventChan) < Capacity]
    /\ nextTag' = nextTag + 1
    /\ UNCHANGED <<currentBatch, wpc, workerLocals, lifecycleVars, cacheVars, marks,
                   calls, eventsTable, processVars, bulkCalls, dequeued, filteredOut>>

\* Redis stops answering, for good.
CacheHang ==
    /\ ~cacheHung
    /\ cacheHung' = TRUE
    /\ UNCHANGED <<batcherVars, cacheVars, marks, calls, eventsTable, mainPc, mu, bulkCalls,
                   requestVars, dequeued, filteredOut>>

\* A running batcher, its producers, and one Shutdown.
NextBatcher ==
    \/ \E ident \in Identities : EnqueueCall(ident)
    \/ ShutdownCall
    \/ ShutdownReturn
    \/ WorkerRecv
    \/ WorkerTick
    \/ WorkerCancel
    \/ FlushSnapshot
    \/ FlushFilter
    \/ \E storeOk \in BOOLEAN : FlushSave(storeOk)
    \/ Drain
    \/ \E t \in marks : MarkDone(t)
    \/ CacheHang

SpecBatcher == InitServing /\ [][NextBatcher]_vars

\* The worker goroutine's steps.
Worker ==
    \/ WorkerRecv
    \/ WorkerTick
    \/ WorkerCancel
    \/ FlushSnapshot
    \/ FlushFilter
    \/ \E storeOk \in BOOLEAN : FlushSave(storeOk)
    \/ Drain

\* The scheduler runs the worker goroutine and the Shutdown caller whenever
\* they can take a step; a call that carries a deadline returns, a call that
\* carries none returns only when the peer answers.
SpecBatcherFair == SpecBatcher /\ WF_vars(Worker) /\ WF_vars(ShutdownReturn)

\* The running service with the worker goroutine scheduled fairly: the
\* ticker fires every flush interval, so a worker that can take a step does.
SpecServingFair == SpecServing /\ WF_vars(Worker)

\* ----------------------------------------------------------- the batch mutex
\* The worker's critical sections step by step; wpc is "recv", "tick" or
\* "snapshot" while the worker holds b.mu.
\* worker, lines 95-98: an event is received, the mutex taken, the event appended.
RecvLock ==
    /\ wpc = "select"
    /\ eventChan # << >>
    /\ mu = "free"
    /\ mu' = "worker"
    /\ wpc' = "recv"
    /\ eventChan' = Tail(eventChan)
    /\ currentBatch' = Append(currentBatch, Head(eventChan))
    /\ dequeued' = dequeued + 1
    /\ UNCHANGED <<wg, workerLocals, marks, calls, eventsTable, mainPc, cacheHung, bulkCalls,
                   filteredOut>>
    /\ UNCHANGED nonWorker

\* worker, lines 99-104: the size test, the unlock, and the decision to flush.
RecvUnlock ==
    /\ wpc = "recv"
    /\ mu = "worker"
    /\ mu' = "free"
    /\ IF Len(currentBatch) >= BatchSize
       THEN wpc' = "flushBatch" /\ ret' = "select"
       ELSE wpc' = "select" /\ UNCHANGED ret
    /\ UNCHANGED <<eventChan, currentBatch, wg, batch, unprocessed, drained, marks, calls,
                   eventsTable, mainPc, cacheHung, bulkCalls, dequeued, filteredOut>>
    /\ UNCHANGED nonWorker

\* worker, lines 106-108: the ticker fired and the mutex is taken.
TickLock ==
    /\ wpc = "select"
    /\ mu = "free"
    /\ mu' = "worker"
    /\ wpc' = "tick"
    /\ UNCHANGED <<eventChan, currentBatch, wg, workerLocals, marks, calls, eventsTable,
                   mainPc, cacheHung, bulkCalls, dequeued, filteredOut>>
    /\ UNCHANGED nonWorker

\* worker, lines 109-114: the length is read, the mutex released.
TickUnlock ==
    /\ wpc = "tick"
    /\ mu = "worker"
    /\ mu' = "free"
    /\ IF Len(currentBatch) > 0
       THEN wpc' = "flushBatch" /\ ret' = "select"
       ELSE wpc' = "select" /\ UNCHANGED ret
    /\ UNCHANGED <<eventChan, currentBatch, wg, batch, unprocessed, drained, marks, calls,
                   eventsTable, mainPc, cacheHung, bulkCalls, dequeued, filteredOut>>
    /\ UNCHANGED nonWorker

\* flushBatch, line 121: the mutex is taken.
SnapshotLock ==
    /\ wpc = "flushBatch"
    /\ mu = "free"
    /\ mu' = "worker"
    /\ wpc' = "snapshot"
    /\ UNCHANGED <<eventChan, currentBatch, wg, workerLocals, marks, calls, eventsTable,
                   mainPc, cacheHung, bulkCalls, dequeued, filteredOut>>
    /\ UNCHANGED nonWorker

\* A flushBatch that keeps the mutex until the function returns.
SnapshotUnlockDeferred ==
    /\ wpc = "snapshot"
    /\ mu = "worker"
    /\ IF Len(currentBatch) = 0
       THEN Return(ret) /\ mu' = "free" /\ UNCHANGED <<currentBatch, batch>>
       ELSE /\ batch' = currentBatch
            /\ currentBatch' = << >>
            /\ wpc' = "filter"
            /\ UNCHANGED <<wg, mu>>
    /\ UNCHANGED <<eventChan, ret, unprocessed, drained, marks, calls, eventsTable, mainPc,
                   cacheHung, bulkCalls, dequeued, filteredOut>>
    /\ UNCHANGED nonWorker

\* flushBatch, lines 122-131: return on an empty batch, else copy and reset;
\* the mutex is released on both paths.
SnapshotUnlock ==
    /\ wpc = "snapshot"
    /\ mu = "worker"
    /\ mu' = "free"
    /\ IF Len(currentBatch) = 0
       THEN Return(ret) /\ UNCHANGED <<currentBatch, batch>>
       ELSE /\ batch' = currentBatch
            /\ currentBatch' = << >>
            /\ wpc' = "filter"
            /\ UNCHANGED wg
    /\ UNCHANGED <<eventChan, ret, unprocessed, drained, marks, calls, eventsTable, mainPc,
                   cacheHung, bulkCalls, dequeued, filteredOut>>
    /\ UNCHANGED nonWorker

\* GetBatchSize, line 231: a caller takes the mutex.
GetBatchSizeLock ==
    /\ mu = "free"
    /\ mu' = "caller"
    /\ UNCHANGED <<batcherVars, cacheVars, marks, calls, eventsTable, mainPc, cacheHung,
                   bulkCalls, requestVars, dequeued, filteredOut>>

\* GetBatchSize, lines 232-233: the length is returned, the mutex released.
GetBatchSizeReturn ==
    /\ mu = "caller"
    /\ mu' = "free"
    /\ last' = [op |-> "GetBatchSize", size |-> GetBatchSize]
    /\ UNCHANGED <<batcherVars, cacheVars, marks, calls, eventsTable, mainPc, cacheHung,
                   bulkCalls, nextTag, accepted, lateEnq, dequeued, filteredOut>>

\* The running service with the worker's lock steps and callers of GetBatchSize.
NextMutex ==
    \/ \E ident \in Identities : PostEvent(ident)
    \/ RecvLock
    \/ RecvUnlock
    \/ TickLock
    \/ TickUnlock
    \/ SnapshotLock
    \/ SnapshotUnlock
    \/ FlushFilter
    \/ \E storeOk \in BOOLEAN : FlushSave(storeOk)
    \/ \E t \in marks : MarkDone(t)
    \/ GetBatchSizeLock
    \/ GetBatchSizeReturn

SpecMutex == InitServing /\ [][NextMutex]_vars

\* -------------------------------------------------------------- the process
\* main, lines 98-100: the signal arrives and app.Shutdown() returns; the
\* server accepts no more requests, no handler is running, and the request
\* contexts are done.
AppShutdown ==
    /\ mainPc = "serving"
    /\ mainPc' = "cleanup"
    /\ UNCHANGED <<batcherVars, cacheVars, marks, calls, eventsTable, mu, cacheHung, bulkCalls,
                   requestVars, dequeued, filteredOut>>

\* A request served while the server is accepting.
ServePostEvent(ident) == mainPc = "serving" /\ PostEvent(ident)
ServePostBulk(idents, storeOk) == mainPc = "serving" /\ PostBulk(idents, storeOk)

\* main, line 105: ShutdownEventService calls the batcher's Shutdown.
MainShutdownEventService == mainPc = "cleanup" /\ shutdownPc = "idle" /\ ShutdownCall

\* main that closes the store client before it shuts the batcher down.
CloseClickHouseFirst ==
    /\ mainPc = "cleanup"
    /\ mainPc' = "storeClosed"
    /\ UNCHANGED <<batcherVars, cacheVars, marks, calls, eventsTable, mu, cacheHung, bulkCalls,
                   requestVars, dequeued, filteredOut>>

\* main, lines 109-112: CloseClickHouse, once ShutdownEventService has returned.
CloseClickHouse ==
    /\ mainPc = "cleanup"
    /\ shutdownPc = "returned"
    /\ mainPc' = "storeClosed"
    /\ UNCHANGED <<batcherVars, cacheVars, marks, calls, eventsTable, mu, cacheHung, bulkCalls,
                   requestVars, dequeued, filteredOut>>

\* main, lines 114-116: CloseRedis.
CloseRedis ==
    /\ mainPc = "storeClosed"
    /\ mainPc' = "cacheClosed"
    /\ UNCHANGED <<batcherVars, cacheVars, marks, calls, eventsTable, mu, cacheHung, bulkCalls,
                   requestVars, dequeued, filteredOut>>

\* The mark goroutine of PostEventsBulk (event.go 77-82) runs with the
\* request's context; when that context is done the cache call may return the
\* context's error and store nothing.
MarkCancelled(t) ==
    /\ t \in marks
    /\ t.via = "bulk"
    /\ mainPc # "serving"
    /\ marks' = marks \ {t}
    /\ UNCHANGED <<batcherVars, cacheVars, calls, eventsTable, processVars, bulkCalls,
                   requestVars, dequeued, filteredOut>>

\* The process from the first request to the end of main.
NextProcess ==
    \/ \E ident \in Identities : ServePostEvent(ident)
    \/ \E idents \in BulkInputs, storeOk \in BOOLEAN : ServePostBulk(idents, storeOk)
    \/ AppShutdown
    \/ MainShutdownEventService
    \/ ShutdownReturn
    \/ CloseClickHouse
    \/ CloseRedis
    \/ WorkerRecv
    \/ WorkerTick
    \/ WorkerCancel
    \/ FlushSnapshot
    \/ FlushFilter
    \/ \E storeOk \in BOOLEAN : FlushSave(storeOk)
    \/ Drain
    \/ \E t \in marks : MarkDone(t)
    \/ \E t \in marks : MarkCancelled(t)
    \/ CacheFlip

SpecProcess == InitServing /\ [][NextProcess]_vars

\* -------------------------------------------------------------- properties
\* The cache holds the mark of e's fingerprint.
Marked(e) == RedisKey(e) \in DOMAIN cache /\ cache[RedisKey(e)] = "1"

\* The step serves one POST /events (it takes one tag and makes no bulk call).
PostStep == nextTag' = nextTag + 1 /\ last'.op = "PostEvents"

\* The step serves one POST /events/bulk.
BulkStep == bulkCalls' # bulkCalls

Last(s) == s[Len(s)]

\* C1: in every state of the batcher (not started, worker at the select, worker
\* inside a flush, draining, exited) a post that reaches Enqueue can be served
\* in one step; with fewer than Capacity events queued the event is appended
\* at the tail and nil returned, with exactly Capacity queued ErrBufferFull is
\* returned and the queue is unchanged.
C1_EnqueueNonBlocking ==
    /\ [](nextTag <= MaxEvents => \A ident \in Identities : ENABLED PostEvent(ident))
    /\ [][(PostStep /\ ~(cacheUp /\ Marked(last'.event))) =>
            /\ Len(eventChan) <= Capacity
            /\ Len(eventChan) < Capacity =>
                  /\ eventChan' = Append(eventChan, last'.event)
                  /\ last'.err = Nil
            /\ Len(eventChan) = Capacity =>
                  /\ eventChan' = eventChan
                  /\ last'.err = ErrBufferFull]_vars

\* C1 witness: an event was appended to the queue while the worker was inside
\* a flush.
C1_Witness ==
    /\ last.op = "PostEvents"
    /\ last.flushing
    /\ last.err = Nil
    /\ eventChan # << >>
    /\ eventChan[Len(eventChan)] = last.event

\* C2: the queue length lies between 0 and Capacity and is the number of
\* accepted events less the number of events the worker received.
C2_BufferSize ==
    /\ 0 <= GetBufferSize
    /\ GetBufferSize <= Capacity
    /\ GetBufferSize = Len(accepted) - dequeued

\* C2 witness: the queue is full again after the worker has received an event.
C2_Witness == GetBufferSize = Capacity /\ dequeued > 0

\* The events of the batcher's writer calls that ended with the given result.
EventsOf(res) ==
    UNION { Range(calls[i].events) : i \in { j \in 1..Len(calls) : calls[j].result = res } }

RECURSIVE CountOf(_, _)
CountOf(s, res) ==
    IF s = << >> THEN 0
    ELSE (IF Head(s).result = res THEN Len(Head(s).events) ELSE 0) + CountOf(Tail(s), res)

\* Start had returned when Shutdown began, nothing was enqueued after it
\* began, and Shutdown has returned.
GracefulShutdownReturned == shutdownPc = "returned" /\ sdAfterStart /\ ~lateEnq

\* C3: when a graceful shutdown has returned, the queue and the current batch
\* are empty and every accepted event is in exactly one of: a successful
\* write, a failed write, the events the filter dropped; so the number written
\* is accepted less failed less dropped.
C3_GracefulShutdownAccounting ==
    GracefulShutdownReturned =>
        /\ eventChan = << >>
        /\ currentBatch = << >>
        /\ Range(accepted) = EventsOf("ok") \cup EventsOf("failed") \cup filteredOut
        /\ EventsOf("ok") \cap EventsOf("failed") = {}
        /\ EventsOf("ok") \cap filteredOut = {}
        /\ EventsOf("failed") \cap filteredOut = {}
        /\ CountOf(calls, "ok") = Cardinality(EventsOf("ok"))
        /\ CountOf(calls, "failed") = Cardinality(EventsOf("failed"))
        /\ CountOf(calls, "ok") =
              Len(accepted) - CountOf(calls, "failed") - Cardinality(filteredOut)

\* C3 witness: a graceful shutdown returned with two events accepted, one of
\* them written and the other dropped by the filter.
C3_Witness ==
    /\ GracefulShutdownReturned
    /\ Len(accepted) = 2
    /\ CountOf(calls, "ok") = 1
    /\ Cardinality(filteredOut) = 1

\* C4: a post whose fingerprint the cache reports as processed answers
\* success with "Event already processed" and no error, and leaves the queue,
\* the current batch and the cache as they were.
C4_AlreadyProcessed ==
    [][(PostStep /\ cacheUp /\ Marked(last'.event)) =>
            /\ last'.resp = [success |-> TRUE, message |-> "Event already processed"]
            /\ last'.err = Nil
            /\ last'.http.status = 200
            /\ UNCHANGED <<eventChan, currentBatch, cache, accepted>>]_vars

\* C4 witness: a post was answered "Event already processed".
C4_Witness ==
    /\ last.op = "PostEvents"
    /\ last.resp.message = "Event already processed"
    /\ Marked(last.event)

\* Some successful batcher write held an event with e's fingerprint and the
\* mark goroutine of that flush has finished.
FlushedAndMarked(e) ==
    \E i \in 1..Len(calls) :
        /\ calls[i].result = "ok"
        /\ \E w \in Range(calls[i].events) : GetUniqueKey(w) = GetUniqueKey(e)
        /\ [events |-> calls[i].events, via |-> "batcher"] \notin marks

\* C5: while the cache has been available throughout, a post whose
\* fingerprint was accepted, flushed with a successful write and marked by
\* the finished mark goroutine answers "Event already processed" and leaves
\* the queue size as it was.
C5_SecondPostAlreadyProcessed ==
    [][(PostStep /\ ~cacheEverDown /\ FlushedAndMarked(last'.event)) =>
            /\ last'.resp.message = "Event already processed"
            /\ last'.resp.success
            /\ Len(eventChan') = Len(eventChan)]_vars

\* C5 witness: the second post of a fingerprint that was not in the cache at
\* the start was answered "Event already processed" after flush and mark.
C5_Witness ==
    /\ last.op = "PostEvents"
    /\ last.event.user_id = "user_2"
    /\ ~cacheEverDown
    /\ FlushedAndMarked(last.event)
    /\ last.event \notin Range(accepted)
    /\ last.resp.message = "Event already processed"

\* The events of every successful write, batcher and bulk together.
WrittenOk ==
    EventsOf("ok") \cup
    UNION { Range(bulkCalls[i].events) :
              i \in { j \in 1..Len(bulkCalls) : bulkCalls[j].result = "ok" } }

\* The step is the batcher's cache filter, flushBatch line 134.
FilterStep == wpc = "filter" /\ wpc' # "filter"

\* The step is the batcher's write, flushBatch line 145.
SaveStep == calls' # calls

\* The batcher writes the list its filter returned, in one call.
SaveWritesFiltered ==
    SaveStep => calls' = Append(calls, [events |-> unprocessed,
                                         result |-> Last(calls').result])

\* C6 as stated: while the cache has been available throughout, no two
\* events of one fingerprint are written.
C6_AtMostOnePerFingerprint ==
    ~cacheEverDown =>
        \A e1, e2 \in WrittenOk : GetUniqueKey(e1) = GetUniqueKey(e2) => e1 = e2

\* C6: with the cache available, an event whose fingerprint the cache holds
\* when it is looked up goes no further: the post does not enqueue it, the
\* batcher's filter and the bulk filter do not hand it to the writer.
C6_MarkedNeverPassedOn ==
    [][/\ (PostStep /\ cacheUp /\ Marked(last'.event)) =>
              UNCHANGED <<eventChan, accepted>>
       /\ (FilterStep /\ cacheUp) =>
              /\ \A e \in Range(unprocessed') : ~Marked(e)
              /\ \A e \in Range(batch) : Marked(e) => e \in filteredOut'
       /\ SaveWritesFiltered
       /\ (BulkStep /\ cacheUp) =>
              \A e \in Range(Last(bulkCalls').events) : ~Marked(e)]_vars

\* C6 witness: with the cache available throughout, the batcher's filter
\* dropped an accepted event whose fingerprint had been written and marked.
C6_Witness ==
    /\ ~cacheEverDown
    /\ \E e \in filteredOut : e \in Range(accepted) /\ FlushedAndMarked(e)

\* C7: a post that finds the queue at capacity, its fingerprint not reported
\* processed, answers success=false with ErrBufferFull, which the handler maps
\* to 503 "Service temporarily unavailable, please try again later"; nothing
\* is enqueued and nothing is marked.
C7_BufferFull503 ==
    [][(PostStep /\ Len(eventChan) = Capacity /\ ~(cacheUp /\ Marked(last'.event))) =>
            /\ last'.resp.success = FALSE
            /\ last'.err = ErrBufferFull
            /\ last'.http =
                  [status |-> 503,
                   body |-> [success |-> FALSE,
                             message |-> "Service temporarily unavailable, please try again later"]]
            /\ UNCHANGED <<eventChan, accepted, cache, marks>>]_vars

\* C7 witness: a post was answered 503 with the queue at capacity.
C7_Witness ==
    /\ last.op = "PostEvents"
    /\ last.http.status = 503
    /\ Len(eventChan) = Capacity
    /\ last.event \notin Range(accepted)

\* C8: while the cache is unavailable a post is served as a cache miss
\* (enqueued, or refused with ErrBufferFull), the batcher's filter and the
\* bulk filter hand every event to the writer in order, and no response
\* carries the cache's error.
C8_CacheFailureDegradesOpen ==
    [][/\ (PostStep /\ ~cacheUp) =>
              IF Len(eventChan) < Capacity
              THEN /\ eventChan' = Append(eventChan, last'.event)
                   /\ last'.err = Nil
                   /\ last'.resp = [success |-> TRUE,
                                    message |-> "Event posted successfully"]
              ELSE /\ eventChan' = eventChan
                   /\ last'.err = ErrBufferFull
       /\ (FilterStep /\ ~cacheUp) =>
              /\ unprocessed' = batch
              /\ wpc' = "save"
              /\ filteredOut' = filteredOut
       /\ SaveStep => Last(calls').events = unprocessed
       /\ (BulkStep /\ ~cacheUp) =>
              /\ Last(bulkCalls').events = last'.events
              /\ Last(bulkCalls').result # "empty"
       /\ last'.op # "none" => last'.err # ErrRedis]_vars

\* C8 witness: with the cache unavailable the bulk path wrote an event whose
\* fingerprint is marked in the cache.
C8_Witness ==
    /\ ~cacheUp
    /\ last.op = "PostEventsBulk"
    /\ last.err = Nil
    /\ Last(bulkCalls).events = last.events
    /\ \E e \in Range(last.events) : Marked(e)

\* C9 as stated: a bulk request with some or all of its events marked in the
\* cache, none of whose writes fails, is answered success with
\* total = len(input), success_count = total and failure_count = 0.
C9_FilteredCountAsSuccess ==
    [][(/\ BulkStep
        /\ cacheUp
        /\ \E e \in Range(last'.events) : Marked(e)
        /\ Last(bulkCalls').result # "failed") =>
            /\ last'.resp.success
            /\ last'.http.status = 200
            /\ last'.resp.total_count = Len(last'.events)
            /\ last'.resp.success_count = Len(last'.events)
            /\ last'.resp.failure_count = 0]_vars

\* C10: with the cache available, the batcher's filter returns exactly the
\* events of the batch the cache does not hold, in order, and the write gets
\* that list in one call; the bulk path makes one writer call with exactly the
\* events of the request the cache does not hold, in order.
C10_WriterGetsUnmarkedInOrder ==
    [][/\ (FilterStep /\ cacheUp) =>
              unprocessed' = SelectSeq(batch, LAMBDA e : ~Marked(e))
       /\ SaveStep =>
              /\ Len(calls') = Len(calls) + 1
              /\ Last(calls').events = unprocessed
       /\ (BulkStep /\ cacheUp) =>
              /\ Len(bulkCalls') = Len(bulkCalls) + 1
              /\ Last(bulkCalls').events =
                    SelectSeq(last'.events, LAMBDA e : ~Marked(e))]_vars

\* C10 witness: a bulk request of two events, the first in the cache, made
\* one successful write of the second alone.
C10_Witness ==
    /\ last.op = "PostEventsBulk"
    /\ Len(last.events) = 2
    /\ Marked(last.events[1])
    /\ Last(bulkCalls) = [events |-> <<last.events[2]>>, result |-> "ok"]

\* C11: a bulk request whose write fails returns the writer's error, which
\* the handler maps to 500, with total = len(input), success_count = 0 and
\* failure_count = total; in every bulk response, from the service and from
\* the handler, success_count + failure_count = total.
C11_BulkWriteFailureCounts ==
    [][BulkStep =>
          /\ last'.resp.total_count = Len(last'.events)
          /\ last'.resp.success_count + last'.resp.failure_count = last'.resp.total_count
          /\ last'.http.body.success_count + last'.http.body.failure_count =
                last'.http.body.total_count
          /\ Last(bulkCalls').result = "failed" =>
                /\ last'.err = ErrInsert
                /\ last'.http.status = 500
                /\ last'.resp.success = FALSE
                /\ last'.resp.success_count = 0
                /\ last'.resp.failure_count = Len(last'.events)
                /\ last'.http.body.success = FALSE
                /\ last'.http.body.success_count = 0
                /\ last'.http.body.failure_count = Len(last'.events)]_vars

\* C11 witness: a bulk request of two events, one of them in the cache, was
\* answered 500 after its write failed.
C11_Witness ==
    /\ last.op = "PostEventsBulk"
    /\ Len(last.events) = 2
    /\ Len(Last(bulkCalls).events) = 1
    /\ Last(bulkCalls).result = "failed"
    /\ last.http.status = 500

\* C12: a bulk request is served whatever the queue holds, and serving it
\* leaves the queue and the current batch, hence buffer_size() and
\* batch_size(), as they were.
C12_BulkBypassesQueue ==
    /\ [](\A idents \in BulkInputs :
            nextTag + Len(idents) - 1 <= MaxEvents => ENABLED PostBulk(idents, TRUE))
    /\ [][BulkStep => UNCHANGED <<eventChan, currentBatch, accepted, dequeued>>]_vars

\* C12 witness: a bulk request succeeded while the queue was at capacity.
C12_Witness ==
    /\ last.op = "PostEventsBulk"
    /\ last.err = Nil
    /\ last.http.status = 200
    /\ GetBufferSize = Capacity

\* No event is handed to the batcher's writer more than once.
NoEventWrittenTwice ==
    CountOf(calls, "ok") + CountOf(calls, "failed") =
        Cardinality(EventsOf("ok") \cup EventsOf("failed"))

\* C13: a failed write of the batcher drops the snapshot: the queue and the
\* current batch are as before, the flush's locals are cleared, the worker
\* returns to where the flush was called from, no request's response changes,
\* no event is ever written twice, and the only error a post returns is
\* ErrBufferFull.
C13_FailedFlushDropsBatch ==
    /\ [](NoEventWrittenTwice)
    /\ [](last.op = "PostEvents" => last.err \in {Nil, ErrBufferFull})
    /\ [][(SaveStep /\ Last(calls').result = "failed") =>
            /\ UNCHANGED <<eventChan, currentBatch, last, marks, accepted>>
            /\ Len(calls') = Len(calls) + 1
            /\ batch' = << >>
            /\ unprocessed' = << >>
            /\ wpc' = (IF ret = "exit" THEN "done" ELSE ret)]_vars

\* C13 witness: after a failed write the worker wrote a later event.
C13_Witness ==
    /\ Len(calls) = 2
    /\ calls[1].result = "failed"
    /\ calls[2].result = "ok"
    /\ Range(calls[1].events) \cap Range(calls[2].events) = {}

\* The step finishes a mark goroutine.
MarkStep == marks' # marks /\ marks' \subseteq marks

\* C14: a mark goroutine is started only by a write that succeeded, for
\* exactly the events of that write; a failed write starts none; a mark that
\* finishes, with or without an error, changes no response and nothing of the
\* batcher.
C14_MarkOnlyAfterSuccessfulWrite ==
    [][/\ SaveStep =>
              marks' = IF Last(calls').result = "ok"
                       THEN marks \cup {[events |-> Last(calls').events, via |-> "batcher"]}
                       ELSE marks
       /\ BulkStep =>
              marks' = IF Last(bulkCalls').result = "ok"
                       THEN marks \cup {[events |-> Last(bulkCalls').events, via |-> "bulk"]}
                       ELSE marks
       /\ ~(SaveStep \/ BulkStep) => marks' \subseteq marks
       /\ MarkStep =>
              /\ UNCHANGED <<last, calls, bulkCalls, batcherVars, accepted>>
              /\ ~cacheUp => cache' = cache]_vars

\* C14 witness: a bulk write failed and started no mark, and the mark of a
\* successful batcher write failed while the cache was down without any
\* request seeing an error.
C14_Witness ==
    /\ marks = {}
    /\ bulkCalls # << >>
    /\ Last(bulkCalls).result = "failed"
    /\ \E i \in 1..Len(calls) :
          /\ calls[i].result = "ok"
          /\ \E e \in Range(calls[i].events) : ~Marked(e)

\* C15: Start launches a worker at most once: a launch happens only while no
\* worker has ever been launched, a Start on a running batcher begins no new
\* launch, and the WaitGroup counts the one worker that is alive.
C15_SingleWorker ==
    /\ [](/\ wg \in {0, 1}
          /\ (wg = 1) = (wpc \notin {"none", "done"})
          /\ starting => (isRunning /\ wpc = "none")
          /\ wpc # "none" => (isRunning /\ ~starting))
    /\ [][/\ wg' > wg => (wpc = "none" /\ wg = 0 /\ wpc' = "select")
          /\ isRunning => ~(starting' /\ ~starting)
          /\ (wpc # "none" /\ wpc' # wpc) => wg' <= wg]_vars

\* C15 witness: the one worker is running and has taken an event from the
\* queue; Start is still callable.
C15_Witness ==
    /\ isRunning
    /\ ~starting
    /\ wg = 1
    /\ wpc = "select"
    /\ dequeued > 0
    /\ ~cancelled

\* The worker has exited.
Stopped == wpc = "done"

\* C16: the batcher only moves forward: isRunning and the cancellation are
\* never undone, cancellation happens only on a started batcher, and once the
\* worker has exited no Start or Shutdown launches a worker, flushes, writes
\* or touches the current batch, and none takes an event from the queue;
\* Shutdown on a batcher that was never started changes nothing.
C16_ForwardOnly ==
    /\ [](~isRunning => (~cancelled /\ wpc = "none" /\ shutdownPc = "idle" /\ calls = << >>))
    /\ [][/\ isRunning => isRunning'
          /\ cancelled => cancelled'
          /\ (cancelled' /\ ~cancelled) => isRunning
          /\ Stopped =>
                /\ wpc' = "done"
                /\ UNCHANGED <<wg, starting, currentBatch, calls, dequeued, workerLocals>>
                /\ \/ eventChan' = eventChan
                   \/ (PostStep /\ eventChan' = Append(eventChan, last'.event))]_vars

\* C16 witness: Shutdown has returned from a stopped batcher that still holds
\* isRunning, with an event left in the queue that nobody will take.
C16_Witness ==
    /\ Stopped
    /\ shutdownPc = "returned"
    /\ isRunning
    /\ wg = 0
    /\ eventChan # << >>

\* C17 as stated: whenever Shutdown has returned the worker has finished its
\* drain and exited.
C17_ShutdownWaitsForWorker ==
    shutdownPc = "returned" => wpc = "done"

\* The events of the batcher's writer calls, concatenated in call order.
RECURSIVE Flatten(_)
Flatten(s) == IF s = << >> THEN << >> ELSE Head(s).events \o Flatten(Tail(s))

\* The position of e in the sequence s, 0 when it is not there.
PosIn(s, e) ==
    IF e \in Range(s) THEN CHOOSE i \in 1..Len(s) : s[i] = e ELSE 0

\* w is a subsequence of s (the elements of s are distinct).
IsSubsequence(w, s) ==
    /\ \A i \in 1..Len(w) : PosIn(s, w[i]) > 0
    /\ \A i, j \in 1..Len(w) : i < j => PosIn(s, w[i]) < PosIn(s, w[j])

SameIdentity(a, b) ==
    /\ a.event_name = b.event_name
    /\ a.user_id = b.user_id
    /\ a.timestamp = b.timestamp
    /\ a.channel = b.channel

\* C19: the fingerprint of a request is event_name|user_id|timestamp|channel
\* with the timestamp in decimal; two requests with the same four fields,
\* whatever their campaign_id, tags and metadata, have the same fingerprint.
C19_FingerprintOfIdentity ==
    last.op = "GetUniqueKey" =>
        /\ last.ka = last.a.event_name \o "|" \o last.a.user_id \o "|" \o
                     ToString(last.a.timestamp) \o "|" \o last.a.channel
        /\ last.a = last.b => last.ka = last.kb
        /\ SameIdentity(last.a, last.b) => last.ka = last.kb

\* C19 witness: two requests that differ in campaign_id, tags and metadata
\* only, with one fingerprint.
C19_Witness ==
    /\ last.op = "GetUniqueKey"
    /\ SameIdentity(last.a, last.b)
    /\ last.a.campaign_id # last.b.campaign_id
    /\ last.a.tags # last.b.tags
    /\ last.a.metadata # last.b.metadata
    /\ last.ka = last.kb
    /\ last.ka = "click|u1|1700000000|web"

\* C20 as stated: two requests that pass validation have equal fingerprints
\* exactly when their (event_name, user_id, timestamp, channel) are equal.
C20_FingerprintInjective ==
    (last.op = "GetUniqueKey" /\ last.va = Nil /\ last.vb = Nil) =>
        ((last.ka = last.kb) = SameIdentity(last.a, last.b))

\* A required string field of the request is empty after trimming.
BlankRequired(request) ==
    \/ request.event_name \in Blank
    \/ request.channel \in Blank
    \/ request.campaign_id \in Blank
    \/ request.user_id \in Blank

\* C30 as stated: a request with a required string field that is empty
\* after trimming whitespace fails validation.
C30_BlankRequiredRejected ==
    (last.op = "GetUniqueKey" /\ BlankRequired(last.a)) => last.va # Nil

\* The step is a call of one of the two mark operations of the cache client.
SetStep ==
    /\ last' # last \/ cache' # cache
    /\ last'.op \in {"SetEventProcessed", "SetMultipleEventsProcessed"}
    /\ DOMAIN cache \subseteq DOMAIN cache'

\* The keys of the events the last cache call was given.
KeysOfCall(l) == { RedisKey(l.events[i]) : i \in 1..Len(l.events) }

\* C21: a lookup with Redis available answers (true, nil) exactly when the
\* key clickhouse_event:<fingerprint> holds "1" and (false, nil) otherwise;
\* with Redis unavailable it answers (false, err). A key comes to hold "1"
\* only by a mark of an event with that fingerprint, a mark with a positive
\* TTL makes its keys hold "1", and the cache changes only by marks and by
\* expiry; after expiry the lookup answers (false, nil).
C21_LookupSeesMarks ==
    /\ [](last.op = "IsEventProcessed" => ~(last.processed /\ last.err # Nil))
    /\ [][/\ (last'.op = "IsEventProcessed" /\ last' # last) =>
                IF cacheUp
                THEN last'.err = Nil /\ last'.processed = Marked(last'.event)
                ELSE last'.err = ErrRedis /\ last'.processed = FALSE
          /\ (SetStep /\ cacheUp /\ expirationMilliseconds > 0) =>
                \A i \in 1..Len(last'.events) :
                    IsEventProcessed(cache', last'.events[i], FALSE) =
                        [processed |-> TRUE, err |-> Nil]
          /\ cache' # cache =>
                \/ SetStep /\ cacheUp
                \/ DOMAIN cache' \subseteq DOMAIN cache /\ DOMAIN cache' # DOMAIN cache
          /\ \A k \in DOMAIN cache' :
                (cache'[k] = "1" /\ ~(k \in DOMAIN cache /\ cache[k] = "1")) =>
                    (SetStep /\ k \in KeysOfCall(last'))
          /\ \A i \in Identities :
                RedisKey(MkEvent(i, 1)) \notin DOMAIN cache' =>
                    IsEventProcessed(cache', MkEvent(i, 1), FALSE) =
                        [processed |-> FALSE, err |-> Nil]]_vars

\* C21 witness: a lookup answered (true, nil) for the fingerprint of user_2,
\* which only a mark of this run can have set.
C21_Witness ==
    /\ last.op = "IsEventProcessed"
    /\ last.event.user_id = "user_2"
    /\ last.processed
    /\ last.err = Nil

\* C22: the events the callers keep after AreEventsProcessed are exactly
\* those for which IsEventProcessed on the same cache does not answer true,
\* in order; with Redis unavailable both treat every event as unprocessed.
C22_BatchLookupAgreesWithSingle ==
    [][(last'.op = "AreEventsProcessed" /\ last' # last) =>
          /\ last'.unprocessed =
                SelectSeq(last'.events,
                          LAMBDA e : ~IsEventProcessed(cache, e, ~cacheUp).processed)
          /\ ~cacheUp => last'.unprocessed = last'.events]_vars

\* C22 witness: a list with a repeated fingerprint whose key holds a value
\* other than "1" and with a marked fingerprint: the repeated one is kept
\* twice, the marked one dropped.
C22_Witness ==
    /\ last.op = "AreEventsProcessed"
    /\ cacheUp
    /\ Len(last.events) = 2
    /\ GetUniqueKey(last.events[1]) = GetUniqueKey(last.events[2])
    /\ RedisKey(last.events[1]) \in DOMAIN cache
    /\ cache[RedisKey(last.events[1])] = "0"
    /\ last.unprocessed = last.events

\* C23 as stated: a mark with Redis available stores "1" under the key of
\* each event, whatever the configured TTL, zero and negative included.
C23_MarkStoresWithAnyTTL ==
    [][(SetStep /\ cacheUp) =>
          \A k \in KeysOfCall(last') : k \in DOMAIN cache' /\ cache'[k] = "1"]_vars

\* The columns of the events table.
Columns ==
    {"event_name", "channel", "campaign_id", "user_id", "timestamp", "tags", "metadata",
     "ingested_at"}

\* The metadata of the request can be serialized.
Serializable(request) ==
    \A k \in request.metadata.keys : request.metadata.at[k].kind = "string"

\* C29: SaveEvents with n > 0 requests issues exactly one insert whose
\* columns all have length n; position i of every column holds the field of
\* the i-th request, with "" for nil or empty metadata, and ingested_at is
\* the same at every position. With an empty list, or when a metadata map
\* cannot be serialized, it returns an error, issues no insert and leaves
\* the table as it was.
C29_OneColumnarInsert ==
    [][(last'.op = "SaveEvents" /\ last' # last) =>
          LET r == last'.requests
              n == Len(r)
          IN  IF n > 0 /\ \A i \in 1..n : Serializable(r[i])
              THEN /\ Len(last'.inserts) = 1
                   /\ LET m == last'.inserts[1]
                      IN  /\ DOMAIN m = Columns
                          /\ \A c \in Columns : Len(m[c]) = n
                          /\ \A i \in 1..n :
                                /\ m.event_name[i] = r[i].event_name
                                /\ m.channel[i] = r[i].channel
                                /\ m.campaign_id[i] = r[i].campaign_id
                                /\ m.user_id[i] = r[i].user_id
                                /\ m.timestamp[i] = r[i].timestamp
                                /\ m.tags[i] = r[i].tags
                                /\ (r[i].metadata.nil \/ r[i].metadata.keys = {})
                                      => m.metadata[i] = ""
                                /\ ~(r[i].metadata.nil \/ r[i].metadata.keys = {})
                                      => m.metadata[i] = Marshal(r[i].metadata).text
                                /\ m.ingested_at[i] = m.ingested_at[1]
                          /\ last'.err = Nil =>
                                /\ Len(eventsTable') = Len(eventsTable) + n
                                /\ \A i \in 1..n : \A c \in Columns :
                                      eventsTable'[Len(eventsTable) + i][c] = m[c][i]
                          /\ last'.err # Nil => eventsTable' = eventsTable
              ELSE /\ last'.err # Nil
                   /\ last'.inserts = << >>
                   /\ eventsTable' = eventsTable]_vars

\* C29 witness: one insert of two rows, the first with a two-key metadata
\* map and the second with nil metadata, has reached the table.
C29_Witness ==
    /\ last.op = "SaveEvents"
    /\ last.err = Nil
    /\ Len(last.requests) = 2
    /\ last.requests[2].metadata.nil
    /\ Len(last.inserts) = 1
    /\ last.inserts[1].metadata = <<"{\"plan\":\"pro\",\"tier\":\"gold\"}", "">>
    /\ last.inserts[1].campaign_id = <<"summer", "winter">>
    /\ Len(eventsTable) = 2
    /\ eventsTable[1].ingested_at = eventsTable[2].ingested_at

\* The last state change was the handler serving a GET /metrics request.
Served == last.op = "GetMetrics"

\* The request reached the planner: a query was built.
Planned == Served /\ last.reply.status # 400

\* The served request with its group_by parameter left out.
Ungrouped == [last.params EXCEPT !.group_by = ""]

\* The sum of total_events over the rows of a result.
SumTotalEvents(metrics) ==
    LET sum[i \in 0..Len(metrics)] ==
            IF i = 0 THEN 0 ELSE sum[i - 1] + metrics[i].total_events
    IN  sum[Len(metrics)]

\* The rows of the table that pass the filters of the served request.
Matching ==
    { i \in 1..Len(eventsTable) :
        /\ last.params.event_name # "" => eventsTable[i].event_name = last.params.event_name
        /\ last.params.from # "" => eventsTable[i].timestamp >= ParseInt(last.params.from).v
        /\ last.params.to # "" => eventsTable[i].timestamp <= ParseInt(last.params.to).v }

\* C24 as stated: a request whose group_by is outside the allowlist gets the
\* response the same request gets with group_by absent.
C24_UnknownGroupByAsAbsent ==
    (Served /\ last.params.group_by \notin DOMAIN GroupExprs) =>
        LET h == GetMetricsHandler(eventsTable, Ungrouped, last.storeOk)
        IN  last.reply.status = h.status /\ last.reply.body = h.body

\* C25: the text of a built query consists of fixed strings and, for the
\* bucket, one of the nine allowlisted expressions or 'total'; event_name,
\* from and to appear only as bound arguments; a group_by value outside the
\* allowlist builds the query that the request without group_by builds.
C25_OnlyAllowlistedTextInlined ==
    Planned =>
        LET q == last.reply.query
        IN  /\ q.table = "events FINAL"
            /\ Len(q.columns) = 3
            /\ q.columns[1] \in { e \o " AS bucket" : e \in KnownExprs }
                                   \cup {"'total' AS bucket"}
            /\ q.columns[2] = "count() AS total_events"
            /\ q.columns[3] = "uniqExact(user_id) AS unique_users"
            /\ \A i \in 1..Len(q.where) :
                  \/ q.where[i] = [expr |-> "event_name = ?",
                                   arg |-> [string |-> last.params.event_name]]
                  \/ q.where[i] = [expr |-> "timestamp >= ?",
                                   arg |-> [time |-> ParseInt(last.params.from).v]]
                  \/ q.where[i] = [expr |-> "timestamp <= ?",
                                   arg |-> [time |-> ParseInt(last.params.to).v]]
            /\ q.group \in KnownExprs \cup {""}
            /\ q.order \in {"bucket ASC", ""}
            /\ last.params.group_by \notin DOMAIN GroupExprs =>
                  q = GetMetricsQuery(ParseMetricRequest(Ungrouped))

\* C25 witness: a request with a hostile group_by and an event_name filter
\* was planned; the query labels its single bucket 'total' and binds the name.
C25_Witness ==
    /\ Served
    /\ last.reply.status = 200
    /\ last.params.group_by = ";DROP TABLE events"
    /\ last.reply.query.columns[1] = "'total' AS bucket"
    /\ last.reply.query.where = <<[expr |-> "event_name = ?", arg |-> [string |-> "click"]]>>

\* C26: a built query holds the event_name, from and to filters exactly for
\* the parameters present, and GROUP BY <bucket expression> with ORDER BY
\* bucket ASC exactly when group_by is allowlisted; a grouped result is in
\* ascending order of bucket, an ungrouped one is a single row "total".
C26_FiltersAndGrouping ==
    Planned =>
        LET q == last.reply.query
            Has(clause) == \E i \in 1..Len(q.where) : q.where[i] = clause
            present == { f \in {"event_name", "from", "to"} : last.params[f] # "" }
            grouped == last.params.group_by \in DOMAIN GroupExprs
            m == last.reply.body.metrics
        IN  /\ Len(q.where) = Cardinality(present)
            /\ "event_name" \in present =>
                  Has([expr |-> "event_name = ?", arg |-> [string |-> last.params.event_name]])
            /\ "from" \in present =>
                  Has([expr |-> "timestamp >= ?",
                       arg |-> [time |-> ParseInt(last.params.from).v]])
            /\ "to" \in present =>
                  Has([expr |-> "timestamp <= ?",
                       arg |-> [time |-> ParseInt(last.params.to).v]])
            /\ IF grouped
               THEN /\ q.group = GroupExprs[last.params.group_by]
                    /\ q.order = "bucket ASC"
                    /\ q.columns[1] = GroupExprs[last.params.group_by] \o " AS bucket"
               ELSE q.group = "" /\ q.order = "" /\ q.columns[1] = "'total' AS bucket"
            /\ last.reply.status = 200 =>
                  IF grouped
                  THEN \A i, j \in 1..Len(m) : i < j => StringLess(m[i].bucket, m[j].bucket)
                  ELSE Len(m) = 1 /\ m[1].bucket = "total"

\* C26 witness: a request grouped by hour with a from filter returned two
\* buckets, the earlier hour first.
C26_Witness ==
    /\ Served
    /\ last.reply.status = 200
    /\ last.params.group_by = "hour"
    /\ last.params.from # ""
    /\ last.reply.query.where = <<[expr |-> "timestamp >= ?", arg |-> [time |-> Now - 4000]]>>
    /\ Len(last.reply.body.metrics) = 2
    /\ last.reply.body.metrics[1].bucket = "2023-11-14 21:00:00"
    /\ last.reply.body.metrics[2].bucket = "2023-11-14 22:00:00"

\* C27: for an allowlisted group_by, the total_events of the returned
\* buckets add up to the total_events of the same request without group_by
\* over the same table.
C27_BucketsSumToTotal ==
    (Served /\ last.reply.status = 200 /\ last.params.group_by \in DOMAIN GroupExprs) =>
        LET h == GetMetricsHandler(eventsTable, Ungrouped, last.storeOk)
        IN  /\ h.status = 200
            /\ SumTotalEvents(last.reply.body.metrics) = h.body.metrics[1].total_events

\* C27 witness: a request filtered by event_name and grouped by channel
\* returned two buckets of one event each.
C27_Witness ==
    /\ Served
    /\ last.reply.status = 200
    /\ last.params.group_by = "channel"
    /\ last.params.event_name = "click"
    /\ Len(last.reply.body.metrics) = 2
    /\ SumTotalEvents(last.reply.body.metrics) = 2

\* C28: rows with one (timestamp, event_name, channel, user_id), the fields
\* of the fingerprint, count once: the total_events of a response add up to
\* the number of distinct keys among the rows that pass the filters, an
\* ungrouped response counts each of their user_ids once, and writing a
\* stored row once more changes neither.
C28_DuplicatesCountOnce ==
    (Served /\ last.reply.status = 200) =>
        LET m == last.reply.body.metrics
            again(i) == eventsTable \o
                            <<[eventsTable[i] EXCEPT !.ingested_at = Now + Len(eventsTable)]>>
        IN  /\ \A i, j \in 1..Len(eventsTable) :
                  (SortingKey(eventsTable[i]) = SortingKey(eventsTable[j]))
                      = (GetUniqueKey(eventsTable[i]) = GetUniqueKey(eventsTable[j]))
            /\ SumTotalEvents(m) =
                  Cardinality({ SortingKey(eventsTable[i]) : i \in Matching })
            /\ last.params.group_by \notin DOMAIN GroupExprs =>
                  m[1].unique_users = Cardinality({ eventsTable[i].user_id : i \in Matching })
            /\ \A i \in 1..Len(eventsTable) :
                  LET h == GetMetricsHandler(again(i), last.params, last.storeOk)
                  IN  /\ SumTotalEvents(h.body.metrics) = SumTotalEvents(m)
                      /\ last.params.group_by # "campaign_id" => h.body = last.reply.body

\* C28 witness: the table holds two rows of one key with different
\* campaign_ids, and the ungrouped response counts one event and one user.
C28_Witness ==
    /\ Served
    /\ last.reply.status = 200
    /\ last.params.group_by = ""
    /\ Len(eventsTable) = 2
    /\ SortingKey(eventsTable[1]) = SortingKey(eventsTable[2])
    /\ eventsTable[1].campaign_id # eventsTable[2].campaign_id
    /\ last.reply.body.metrics = <<[bucket |-> "total", total_events |-> 1, unique_users |-> 1]>>

\* C33: a tick that finds the current batch empty changes nothing: no cache
\* call, no write, no state change. The batcher never calls the writer with
\* an empty list, and a flush whose batch is filtered out
\* entirely makes no write, starts no mark, and returns to its caller.
C33_EmptyFlushWritesNothing ==
    /\ [](wpc = "select" /\ currentBatch = << >> => ~ENABLED <<WorkerTick>>_vars)
    /\ [](\A i \in 1..Len(calls) : calls[i].events # << >>)
    /\ [](\A m \in marks : m.events # << >>)
    /\ [][/\ SaveStep => wpc = "save" /\ unprocessed # << >>
          /\ (FilterStep /\ wpc' # "save")
                => /\ filteredOut' = filteredOut \cup Range(batch)
                   /\ wpc' = ret \/ (ret = "exit" /\ wpc' = "done")
                   /\ UNCHANGED <<calls, marks, eventsTable, cache>>]_vars

\* Every event accepted so far was dropped by the batcher's filter, and the
\* worker is back in its loop: a flush was filtered out entirely.
C33_Witness ==
    /\ accepted # << >>
    /\ filteredOut = Range(accepted)
    /\ wpc = "select"
    /\ calls = << >>
    /\ marks = {}

\* C32: the current batch never holds more than batch_size events, and no
\* batch handed to the filter or to the writer does, the batch collected by
\* the drain at shutdown included.
C32_BatchWithinBatchSize ==
    /\ Len(currentBatch) <= BatchSize
    /\ Len(batch) <= BatchSize
    /\ \A i \in 1..Len(calls) : Len(calls[i].events) <= BatchSize

\* The number of positions of the sequence s that hold e.
Occurrences(s, e) == Cardinality({ i \in 1..Len(s) : s[i] = e })

\* The snapshot a flush is working on: the copy before the filter, the
\* filter's result before the write.
InFlight ==
    IF wpc = "filter" THEN batch
    ELSE IF wpc = "save" THEN unprocessed
    ELSE << >>

\* The number of places that hold e: the queue, the current batch, the
\* snapshot in flight, and the terminal outcomes (filtered out, or handed to
\* the writer, which wrote it or dropped it).
Places(e) ==
    Occurrences(eventChan, e) + Occurrences(currentBatch, e) + Occurrences(InFlight, e)
        + (IF e \in filteredOut THEN 1 ELSE 0) + Occurrences(Flatten(calls), e)

\* C38: every accepted event is in exactly one place: the queue, the current
\* batch, the snapshot in flight, or a terminal outcome (written, filtered
\* out, dropped by a failed write). None is handed to the writer twice, none
\* leaves without a flush attempt, and nothing that was not accepted is in
\* any of these places.
C38_EveryEventInOnePlace ==
    /\ \A e \in Range(accepted) : Places(e) = 1
    /\ \A i, j \in 1..Len(accepted) : accepted[i] = accepted[j] => i = j
    /\ Range(eventChan) \cup Range(currentBatch) \cup Range(InFlight) \cup filteredOut
            \cup Range(Flatten(calls)) \subseteq Range(accepted)
    /\ dequeued = Len(accepted) - Len(eventChan)

\* Three events were accepted; one was filtered out, one was written, one was
\* dropped by a failed write.
C38_Witness ==
    /\ Len(accepted) = 3
    /\ filteredOut # {}
    /\ \E i, j \in 1..Len(calls) : calls[i].result = "ok" /\ calls[j].result # "ok"

\* The drain loop has found the queue empty: the worker is in the final
\* flush or has exited.
DrainedOut == wpc = "done" \/ (ret = "exit" /\ wpc \in {"flushBatch", "filter", "save"})

\* The step is a producer's call of Enqueue.
EnqueueStep == nextTag' = nextTag + 1 /\ last'.op = "Enqueue"

\* s is a prefix of t.
IsPrefix(s, t) == Len(s) <= Len(t) /\ \A i \in 1..Len(s) : s[i] = t[i]

\* C39: once the drain loop has found the queue empty the worker never takes
\* an event from the queue again. Enqueue still accepts an event whenever the
\* queue has room, during and after Shutdown as before it; an event accepted
\* from then on stays in the queue for good and is never handed to the writer.
C39_LateEventsStayQueued ==
    /\ [][DrainedOut => /\ DrainedOut'
                        /\ dequeued' = dequeued
                        /\ IsPrefix(eventChan, eventChan')
                        /\ Range(Flatten(calls')) \cap Range(eventChan) = {}]_vars
    /\ [][EnqueueStep => /\ (last'.err = Nil) = (Len(eventChan) < Capacity)
                         /\ last'.err = Nil => eventChan' = Append(eventChan, last'.event)
                         /\ last'.err # Nil => eventChan' = eventChan]_vars

\* Shutdown has returned, the worker has exited, and an event accepted after
\* the drain is in the queue.
C39_Witness ==
    /\ shutdownPc = "returned"
    /\ wpc = "done"
    /\ eventChan # << >>
    /\ last.op = "Enqueue" /\ last.err = Nil

\* main has closed the store client.
StoreClosed == mainPc \in {"storeClosed", "cacheClosed"}

\* C31: at process shutdown the server stops accepting first, then the
\* batcher's Shutdown runs and returns with the worker drained and exited,
\* then the store client is closed, then the cache client. No request is
\* served after the server stopped and no store write is issued after the
\* store client was closed.
C31_ShutdownOrder ==
    /\ [](shutdownPc # "idle" => mainPc # "serving")
    /\ [](StoreClosed => /\ shutdownPc = "returned"
                         /\ wpc = "done"
                         /\ eventChan = << >> /\ currentBatch = << >>)
    /\ [][/\ mainPc' # mainPc =>
                <<mainPc, mainPc'>> \in {<<"serving", "cleanup">>,
                                         <<"cleanup", "storeClosed">>,
                                         <<"storeClosed", "cacheClosed">>}
          /\ (PostStep \/ BulkStep) => mainPc = "serving"
          /\ (SaveStep \/ BulkStep \/ eventsTable' # eventsTable) => ~StoreClosed]_vars

\* main has closed both clients after Shutdown returned; the last event
\* posted was accepted, and the batcher wrote it.
C31_Witness ==
    /\ mainPc = "cacheClosed"
    /\ shutdownPc = "returned"
    /\ \E i \in 1..Len(calls) : calls[i].result = "ok"
    /\ last.op = "PostEvents" /\ last.err = Nil /\ last.event \in EventsOf("ok")

\* C37: the mark task started after a successful write is detached from the
\* request: a bulk request's mark task that finishes after the request's
\* context is done, with the cache working and its client open, has marked
\* the events that were written.
C37_BulkMarkDetached ==
    [][\A t \in marks :
          (t \notin marks' /\ t.via = "bulk" /\ cacheUp /\ mainPc # "cacheClosed")
              => \A i \in 1..Len(t.events) :
                    /\ RedisKey(t.events[i]) \in DOMAIN cache'
                    /\ cache'[RedisKey(t.events[i])] = "1"]_vars

\* C40: every mark task started by a flush, the final flush of the drain
\* included, has finished when main closes the cache client; no cache
\* operation is issued on a closed client.
C40_MarksDoneBeforeCacheCloses ==
    /\ [](mainPc = "cacheClosed" => marks = {})
    /\ [][MarkStep => mainPc # "cacheClosed"]_vars

ShutdownReturnsUnlessCacheHangs ==
    (shutdownPc = "waiting") ~> ((shutdownPc = "returned" /\ wpc = "done") \/ cacheHung)

\* The event posted with tag t has been accepted by Enqueue.
AcceptedTag(t) == \E e \in Range(accepted) : e.tag = t

\* The event posted with tag t went through a flush: the filter dropped it or
\* the writer was called with it.
FlushedTag(t) == \E e \in filteredOut \cup Range(Flatten(calls)) : e.tag = t

\* C36: while the batcher is running and the cache and the store answer,
\* every accepted event is eventually taken from the queue and goes through a
\* flush, also when fewer than batch_size events arrive, provided the worker
\* and its ticker are scheduled fairly.
C36_AcceptedEventuallyFlushed ==
    \A t \in 1..MaxEvents : AcceptedTag(t) ~> FlushedTag(t)

\* Every accepted event went through a flush, and one flush wrote fewer than
\* batch_size events: the ticker started it.
C36_Witness ==
    /\ accepted # << >>
    /\ \A e \in Range(accepted) : FlushedTag(e.tag)
    /\ \E i \in 1..Len(calls) : Len(calls[i].events) < BatchSize

\* The worker's steps that release the mutex.
WorkerUnlock == RecvUnlock \/ TickUnlock \/ SnapshotUnlock

====
